---- MODULE Spec2Model ----
(***************************************************************************)
(* Model of the benchmark execution engine of db-benchmark-suite:          *)
(*   - generator.Generator.Generate        (bounded producer)              *)
(*   - benchmark.Runner.parallelInsert     (pump + worker pool)            *)
(*   - benchmark.Runner.RunInsert/Preload  (result construction)           *)
(*   - orchestrator.WaitReady              (grace / ticker / deadline)     *)
(*   - main.runManagedBenchmarks           (sequential service lifecycle)  *)
(*   - main.runAllBenchmarks               (direct run, goroutine per db)  *)
(*   - benchmark.Runner.RunQueries         (warmup + measured iterations)  *)
(*   - benchmark.Percentile and the other statistics functions             *)
(***************************************************************************)
EXTENDS Integers, Sequences, FiniteSets, TLC

\* ------------------------------------------------------------------ bounds
MaxEvents == 3
MaxBatch == 3
MaxWorkers == 2
MaxSeconds == 2
MaxProbeTime == 3
MaxClock == 70
MaxWarmup == 2
MaxQueryIterations == 2
MaxSamples == 3
MaxGenerateCalls == 2
MaxPipelineEvents == 15
MaxSampleValue == 3

\* ------------------------------------------------------- program constants
GenChanCap == 10
GraceDelay == 5
ReadyDeadline == 60
TickInterval == 2

\* ---------------------------------------------------------------- variables
VARIABLES
    op,             \* which Runner entry point runs: "RunInsert" or "Preload"
    r,              \* the Runner struct
    ctxDone,        \* the context passed in has been cancelled
    riPc,           \* position of the goroutine executing parallelInsert
    g,              \* the Generator struct
    genPc,          \* position of the goroutine started by Generate()
    genBatch,       \* the batch the producer has built and is sending
    ch,             \* the channel returned by Generate()
    chClosed,
    pumpPc,         \* position of the pumpBatches goroutine
    pumpBatch,      \* the batch pumpBatches holds between receive and send
    batches,        \* the channel parallelInsert makes
    batchesClosed,
    wPc,            \* wPc[w]: position of worker w inside consumeBatches
    wBatch,         \* wBatch[w]: loop variable batch of worker w
    wPrev,          \* wPrev[w]: local prev of worker w
    totalInserted,
    totalErrors,
    result,         \* what RunInsert / Preload returned
    \* observation of the run (history, not program state)
    genSeq,         \* number of batches the producer has built
    received,       \* sizes of the batches received from Generate()'s channel
    calls,          \* calls[id]: number of InsertBatch calls made with batch id
    okSize,         \* sum of the sizes of the batches whose InsertBatch succeeded
    failedCalls,    \* number of InsertBatch calls that returned an error
    failedSize,     \* sum of the sizes of the batches whose InsertBatch failed
    lateDispatch,   \* an InsertBatch call was started with ctx already cancelled
    logged,         \* the inserted counts reported by "Insert progress" lines
    \* ---- managed run (main.runManaged*, package orchestrator)
    databases,      \* getDatabases(*dbType): the backends to process, in order
    flags,          \* the command-line flags runBenchmark reads
    idx,            \* position of the range loop of runManagedBenchmarks
    mPc,            \* position of the driver inside runManagedDB/runManagedBenchmark
    allResults,     \* the map runManagedBenchmarks fills
    pending,        \* the Results value runManagedBenchmark is about to return
    svcState,       \* lifecycle state of each service, as the control flow implies it
    stopPc,         \* position inside StopService
    stopErr,        \* StopService's local err: the graceful stop command failed
    stopResult,     \* what the last StopService call returned
    rmReturned,     \* what rm.Run() returned in that call ("none": rm not run)
    bPc,            \* position inside runBenchmark/executeBenchmark
    wrPc,           \* position inside WaitReady
    wrResult,       \* what WaitReady returned
    now,            \* seconds since WaitReady was entered
    pollStart,      \* value of now when the deadline timer and the ticker were made
    nextTick,       \* when the ticker fires next
    graceFired,     \* the channel of time.After(5s) holds its value
    deadlineFired,  \* the channel of time.After(60s) holds its value
    tickPending,    \* ticker.C holds a tick (buffer of one)
    probeStart,     \* value of now when the running readiness probe was started
    \* observation of the managed run
    probeSucceeded, \* the last runReadyCheck of the current WaitReady call returned nil
    startIssued,    \* services for which StartService was called
    startedOk,      \* services whose StartService returned nil
    stopIssued,     \* services for which StopService was called
    stopReturned,   \* services whose StopService call has returned
    opLog,          \* operations issued for the current service, in order
    \* ---- direct run (main.runDirect / runAllBenchmarks)
    dPc,            \* position of runAllBenchmarks
    gPc,            \* gPc[db]: position of the goroutine running runBenchmark(db)
    gRes,           \* gRes[db]: the Results value runBenchmark(db) returned
    mu,             \* holder of the mutex guarding results ("" when free)
    results,        \* the map runAllBenchmarks fills
    \* observation of the direct run
    gLog,           \* gLog[db]: operations issued against backend db, in order,
                    \* "error" following an operation that returned an error
    \* ---- query benchmark (Runner.RunQueries / runQuery / measureQuery)
    rq,             \* the Runner's WarmupIterations and QueryIterations fields
    qPc,            \* position inside RunQueries
    qNow,           \* RunQueries' now, in hours
    scen,           \* position of the range loop over scenarios
    qi,             \* loop variable i of the warmup loop / of measureQuery
    durations,      \* measureQuery's result durations
    errors,         \* measureQuery's result errors
    queryResults,   \* the map RunQueries fills
    \* observation of the query benchmark
    qCalls,         \* qCalls[name]: kinds of the GetEventStats calls started
    qReturned,      \* qReturned[name]: number of GetEventStats calls that returned
    qOk,            \* qOk[name]: measured calls that returned nil
    qFail,          \* qFail[name]: measured calls that returned an error
    warmupFailed,   \* some warmup call returned an error
    \* ---- one call of Percentile
    samples,        \* the caller's slice
    pctP,           \* the argument p, in percent
    pctPc,          \* position inside Percentile
    sorted,         \* Percentile's local slice sorted
    pctResult,      \* what Percentile returned
    samplesBefore,  \* observation: the caller's slice when the call was made
    \* ---- calls of AvgDuration, MinDuration, MaxDuration on the same slice
    statResult,     \* statResult[f]: what the call of f returned
    \* ---- a caller ranging over Generate() of one generator, call after call
    genCalls,       \* number of Generate() calls made on the generator
    rangePc,        \* position of the caller's range loop
    emitted         \* observation: emitted[k]: batches received from call k

insVars == <<op, r, riPc, g, genPc, genBatch, ch, chClosed, pumpPc, pumpBatch,
             batches, batchesClosed, wPc, wBatch, wPrev, totalInserted,
             totalErrors, result, genSeq, received, calls, okSize, failedCalls,
             failedSize, lateDispatch, logged>>

wrLocals == <<now, pollStart, nextTick, graceFired, deadlineFired, tickPending,
              probeStart, probeSucceeded>>
wrVars == <<wrPc, wrResult, wrLocals>>
drvVars == <<databases, flags, idx, mPc, allResults, pending, svcState,
             startIssued, startedOk, stopIssued, stopReturned, opLog>>
stopVars == <<stopPc, stopErr, stopResult, rmReturned>>
orchVars == <<drvVars, stopVars, bPc, wrVars>>

\* ---- direct run (main.runAllBenchmarks): one goroutine per backend
directVars == <<dPc, gPc, gRes, gLog, mu, results>>

\* ---- query benchmark
queryVars == <<rq, qPc, qNow, scen, qi, durations, errors, queryResults, qCalls,
               qReturned, qOk, qFail, warmupFailed>>

\* ---- one call of Percentile
statsVars == <<samples, pctP, pctPc, sorted, pctResult, samplesBefore, statResult>>

apiVars == <<genCalls, rangePc, emitted>>
restVars == <<directVars, queryVars, statsVars, apiVars>>

vars == <<insVars, ctxDone, orchVars, restVars>>

\* ------------------------------------------------------------------ helpers
NoBatch == [id |-> 0, size |-> 0]
NoResult == [kind |-> "none"]
Workers == 1..MaxWorkers

RECURSIVE SeqSum(_)
SeqSum(s) == IF s = <<>> THEN 0 ELSE Head(s) + SeqSum(Tail(s))

CeilDiv(a, b) == (a + b - 1) \div b

\* Runner.parallelInsert is called with (count, logInterval):
\* RunInsert passes (r.EventCount, BatchSize*10), Preload (r.PreloadCount, BatchSize*50).
InsertCount == IF op = "RunInsert" THEN r.EventCount ELSE r.PreloadCount
LogInterval == IF op = "RunInsert" THEN r.BatchSize * 10 ELSE r.BatchSize * 50

\* generator.New
New(totalEvents, batchSize) ==
    [totalEvents |-> totalEvents, batchSize |-> batchSize, current |-> 0]

\* ---------------------------------------------------------------- initial
RunnerConfigs ==
    { c \in [EventCount : 0..MaxEvents, BatchSize : 1..MaxBatch,
             Workers : 1..MaxWorkers, PreloadCount : 0..MaxEvents] :
        \/ c.PreloadCount = 0
        \/ c.EventCount = MaxEvents }

\* the state before a run with one of the configurations; ids are the batch
\* numbers the observation calls is kept for
InsInitIds(configs, pc, ids) ==
    /\ r \in configs
    /\ op \in (IF r.PreloadCount = 0 THEN {"RunInsert", "Preload"} ELSE {"Preload"})
    /\ riPc = pc
    /\ g = New(0, 1)
    /\ genPc = "idle"
    /\ genBatch = NoBatch
    /\ ch = <<>>
    /\ chClosed = FALSE
    /\ pumpPc = "idle"
    /\ pumpBatch = NoBatch
    /\ batches = <<>>
    /\ batchesClosed = FALSE
    /\ wPc = [w \in Workers |-> "idle"]
    /\ wBatch = [w \in Workers |-> NoBatch]
    /\ wPrev = [w \in Workers |-> 0]
    /\ totalInserted = 0
    /\ totalErrors = 0
    /\ result = NoResult
    /\ genSeq = 0
    /\ received = <<>>
    /\ calls = [i \in ids |-> 0]
    /\ okSize = 0
    /\ failedCalls = 0
    /\ failedSize = 0
    /\ lateDispatch = FALSE
    /\ logged = {}

\* ---- managed run
\* orchestrator.DefaultServices
DefaultServices == <<"postgres", "mongodb", "clickhouse", "cassandra">>
ServiceNames == { DefaultServices[i] : i \in 1..Len(DefaultServices) }
\* orchestrator.ServiceByName: is there a descriptor with this name
ServiceByName(name) == name \in ServiceNames

\* main.getDatabases
getDatabases(dbType) ==
    IF dbType = "all"
    THEN <<"postgres", "mongodb", "clickhouse", "cassandra">>
    ELSE <<dbType>>

DbTypes == {"all", "postgres", "cassandra", "mysql"}

\* benchmark.Results: Error is "none" or names the step that failed;
\* Insert, Queries and Storage say whether the optional field is set
Results(db, err) ==
    [Database |-> db, Error |-> err, Insert |-> FALSE, Queries |-> FALSE,
     Storage |-> FALSE]

\* allResults[dbName] = res
MapPut(m, k, v) == [x \in (DOMAIN m) \cup {k} |-> IF x = k THEN v ELSE m[x]]

OrchIdleBut(dbs, fl, pc) ==
    /\ databases = dbs
    /\ flags = fl
    /\ idx = 1
    /\ mPc = pc
    /\ allResults = <<>>
    /\ pending = Results("", "none")
    /\ svcState = [n \in ServiceNames |-> "Stopped"]
    /\ stopPc = "idle"
    /\ stopErr = FALSE
    /\ stopResult = "none"
    /\ rmReturned = "none"
    /\ bPc = "idle"
    /\ wrPc = "idle"
    /\ wrResult = "none"
    /\ now = 0
    /\ pollStart = 0
    /\ nextTick = 0
    /\ graceFired = FALSE
    /\ deadlineFired = FALSE
    /\ tickPending = FALSE
    /\ probeStart = 0
    /\ probeSucceeded = FALSE
    /\ startIssued = {}
    /\ startedOk = {}
    /\ stopIssued = {}
    /\ stopReturned = {}
    /\ opLog = <<>>

NoFlags == [skipInsert |-> FALSE, skipQuery |-> FALSE, preload |-> FALSE]

\* every name getDatabases can return for the -db values considered
DbNames == UNION { { getDatabases(t)[i] : i \in 1..Len(getDatabases(t)) } : t \in DbTypes }

\* main.newRepo: the switch has a case for this name
Supported(db) == db \in {"postgres", "mongodb", "cassandra", "clickhouse"}

\* ---- time.Duration is int64: a duration is its 64-bit two's complement
\* value in nanoseconds, written as four 16-bit limbs, least significant first
LimbBase == 65536

\* time.Duration(v) for a natural number v below 2^31
Duration(v) == <<v % LimbBase, v \div LimbBase, 0, 0>>

\* math.MaxInt64 = 2^63 - 1
MaxInt64 == <<LimbBase - 1, LimbBase - 1, LimbBase - 1, (LimbBase \div 2) - 1>>

Int64Negative(a) == a[4] >= LimbBase \div 2

\* a + b, wrapping modulo 2^64
Int64Add(a, b) ==
    LET s1 == a[1] + b[1]
        s2 == a[2] + b[2] + (s1 \div LimbBase)
        s3 == a[3] + b[3] + (s2 \div LimbBase)
        s4 == a[4] + b[4] + (s3 \div LimbBase)
    IN <<s1 % LimbBase, s2 % LimbBase, s3 % LimbBase, s4 % LimbBase>>

\* -a, wrapping modulo 2^64
Int64Neg(a) ==
    Int64Add(<<LimbBase - 1 - a[1], LimbBase - 1 - a[2], LimbBase - 1 - a[3],
               LimbBase - 1 - a[4]>>, Duration(1))

\* a < b as signed 64-bit integers
Int64Less(a, b) ==
    IF Int64Negative(a) # Int64Negative(b) THEN Int64Negative(a)
    ELSE \E i \in 1..4 : a[i] < b[i] /\ \A j \in (i + 1)..4 : a[j] = b[j]

\* the unsigned value of a divided by n (0 < n < 2^15), by long division
UInt64Quo(a, n) ==
    LET r4 == a[4] % n
        r3 == (r4 * LimbBase + a[3]) % n
        r2 == (r3 * LimbBase + a[2]) % n
    IN <<(r2 * LimbBase + a[1]) \div n, (r3 * LimbBase + a[2]) \div n,
         (r4 * LimbBase + a[3]) \div n, a[4] \div n>>

\* a / n as Go divides signed integers: truncated towards zero
Int64Quo(a, n) ==
    IF Int64Negative(a) THEN Int64Neg(UInt64Quo(Int64Neg(a), n))
    ELSE UInt64Quo(a, n)

\* var sum time.Duration; for _, d := range durations { sum += d }: the
\* additions wrap, so the two halves can be summed apart
RECURSIVE Int64Sum(_)
Int64Sum(ds) ==
    IF Len(ds) = 0 THEN Duration(0)
    ELSE IF Len(ds) = 1 THEN ds[1]
    ELSE Int64Add(Int64Sum(SubSeq(ds, 1, Len(ds) \div 2)),
                  Int64Sum(SubSeq(ds, (Len(ds) \div 2) + 1, Len(ds))))

\* ---- statistics (package benchmark, stats.go)
\* sort.Slice(sorted, func(i, j int) bool { return sorted[i] < sorted[j] }):
\* the same values in ascending order; the element at j goes to the position
\* given by the number of elements below it (equal elements in their order);
\* the ranks are computed once, as a sequence
SortSlice(s) ==
    LET rank == [j \in 1..Len(s) |->
                    Cardinality({k \in 1..Len(s) :
                        Int64Less(s[k], s[j]) \/ (s[k] = s[j] /\ k <= j)})]
                \o <<>>
    IN [i \in 1..Len(s) |-> s[CHOOSE j \in 1..Len(s) : rank[j] = i]]

\* ---- float64 (IEEE 754 binary64, round to nearest even), for the values
\* Percentile computes with: a float is m * 2^e, m a natural number written as
\* its bits, least significant first (<<>> is 0)
Float64Precision == 53

RECURSIVE BitsToInt(_)
BitsToInt(m) == IF m = <<>> THEN 0 ELSE Head(m) + 2 * BitsToInt(Tail(m))

RECURSIVE IntToBits(_)
IntToBits(n) == IF n = 0 THEN <<>> ELSE <<n % 2>> \o IntToBits(n \div 2)

\* m + 1: the lowest 0 bit becomes 1 and the 1 bits below it become 0
BitsInc(m) ==
    LET zeros == {i \in 1..Len(m) : m[i] = 0}
    IN IF zeros = {} THEN [i \in 1..(Len(m) + 1) |-> IF i > Len(m) THEN 1 ELSE 0]
       ELSE LET j == CHOOSE i \in zeros : \A k \in zeros : i <= k
            IN [i \in 1..Len(m) |-> IF i < j THEN 0 ELSE IF i = j THEN 1 ELSE m[i]]

\* m * n + carry, as the low Len(m) bits and the carry out of them; the two
\* halves of m are multiplied one after the other
RECURSIVE BitsMulCarry(_, _, _)
BitsMulCarry(m, n, carry) ==
    IF Len(m) = 0 THEN [bits |-> <<>>, carry |-> carry]
    ELSE IF Len(m) = 1
    THEN [bits |-> <<(m[1] * n + carry) % 2>>, carry |-> (m[1] * n + carry) \div 2]
    ELSE LET h == Len(m) \div 2
             lo == BitsMulCarry(SubSeq(m, 1, h), n, carry)
             hi == BitsMulCarry(SubSeq(m, h + 1, Len(m)), n, lo.carry)
         IN [bits |-> lo.bits \o hi.bits, carry |-> hi.carry]

BitsMul(m, n) ==
    LET x == BitsMulCarry(m, n, 0)
    IN IF n = 0 THEN <<>> ELSE x.bits \o IntToBits(x.carry)

\* 2^i modulo den, by repeated squaring
RECURSIVE Pow2Mod(_, _)
Pow2Mod(i, den) ==
    IF i = 0 THEN 1 % den
    ELSE LET h == Pow2Mod(i \div 2, den)
         IN (h * h * (IF i % 2 = 1 THEN 2 ELSE 1)) % den

\* the remainder of num/den after i binary digits, and digit i of its binary
\* expansion (0 <= num < den, i >= 1)
BinaryRem(num, den, i) == (num * Pow2Mod(i, den)) % den

BinaryDigit(num, den, i) == IF 2 * BinaryRem(num, den, i - 1) >= den THEN 1 ELSE 0

\* the position of the first 1 in the binary expansion of num/den
\* (0 < num < den)
RECURSIVE FirstOne(_, _, _)
FirstOne(num, den, i) ==
    IF BinaryDigit(num, den, i) = 1 THEN i ELSE FirstOne(num, den, i + 1)

\* a float constant: the float64 nearest to num/den (0 <= num <= den), ties to
\* the even mantissa
Float64Of(num, den) ==
    IF num = 0 THEN [m |-> <<>>, e |-> 0]
    ELSE IF num = den THEN [m |-> <<1>>, e |-> 0]
    ELSE LET first == FirstOne(num, den, 1)
             last == first + Float64Precision - 1
             kept == [i \in 1..Float64Precision |-> BinaryDigit(num, den, last + 1 - i)]
             guard == BinaryDigit(num, den, last + 1)
             sticky == BinaryRem(num, den, last + 1) # 0
             up == guard = 1 /\ (sticky \/ kept[1] = 1)
         IN [m |-> IF up THEN BitsInc(kept) ELSE kept, e |-> 0 - last]

\* the exact value m * 2^e rounded to a float64
Float64Round(m, e) ==
    IF Len(m) <= Float64Precision THEN [m |-> m, e |-> e]
    ELSE LET drop == Len(m) - Float64Precision
             kept == SubSeq(m, drop + 1, Len(m))
             guard == m[drop]
             sticky == \E i \in 1..(drop - 1) : m[i] = 1
             up == guard = 1 /\ (sticky \/ kept[1] = 1)
         IN [m |-> IF up THEN BitsInc(kept) ELSE kept, e |-> e + drop]

\* float64(n) * f, for a natural number n below 2^53
Float64MulInt(n, f) == Float64Round(BitsMul(f.m, n), f.e)

\* int(f), for f >= 0: the integer part
Float64ToInt(f) ==
    IF f.e >= 0 THEN BitsToInt(f.m) * (2 ^ f.e)
    ELSE IF 0 - f.e >= Len(f.m) THEN 0
    ELSE BitsToInt(SubSeq(f.m, 1 - f.e, Len(f.m)))

\* int(float64(n) * p), p given in percent: the float64 constant nearest to
\* p/100
Float64Index(n, p) == Float64ToInt(Float64MulInt(n, Float64Of(p, 100)))

\* the values of p, in percent: the three the program reports (0.50, 0.95,
\* 0.99), the ends of [0,1], and 0.29
Percents == {0, 29, 50, 95, 99, 100}

\* the lengths up to that of TestPercentile's slice
TestLen == 100

\* Float64Index for these values of p and these lengths, computed once
Float64IndexTable ==
    [p \in Percents |-> [n \in 1..TestLen |-> Float64Index(n, p)] \o <<>>] @@ <<>>

\* index := int(float64(len(sorted)) * p); if index >= len { index = len - 1 }
PercentileIndex(n, p) ==
    LET index == IF p \in Percents /\ n \in 1..TestLen
                 THEN Float64IndexTable[p][n]
                 ELSE Float64Index(n, p)
    IN IF index >= n THEN n - 1 ELSE index

Percentile(ds, p) ==
    IF Len(ds) = 0 THEN Duration(0)
    ELSE SortSlice(ds)[PercentileIndex(Len(ds), p) + 1]

\* return sum / time.Duration(len(durations))
AvgDuration(ds) ==
    IF Len(ds) = 0 THEN Duration(0) ELSE Int64Quo(Int64Sum(ds), Len(ds))

\* result := durations[0]; for _, d := range durations[1:] { if d < result
\* { result = d } }: the least of ds[lo..hi], the least of each half found
\* apart
RECURSIVE MinOfRange(_, _, _)
MinOfRange(ds, lo, hi) ==
    IF lo = hi THEN ds[lo]
    ELSE LET mid == (lo + hi) \div 2
             left == MinOfRange(ds, lo, mid)
             right == MinOfRange(ds, mid + 1, hi)
         IN IF Int64Less(right, left) THEN right ELSE left

\* a MinDuration whose result starts at the zero duration instead of
\* durations[0]
MinDurationFromZero(ds) ==
    IF Len(ds) = 0 THEN Duration(0)
    ELSE LET least == MinOfRange(ds, 1, Len(ds))
         IN IF Int64Less(Duration(0), least) THEN Duration(0) ELSE least

MinDuration(ds) ==
    IF Len(ds) = 0 THEN Duration(0) ELSE MinOfRange(ds, 1, Len(ds))

\* the same loop with d > result
RECURSIVE MaxOfRange(_, _, _)
MaxOfRange(ds, lo, hi) ==
    IF lo = hi THEN ds[lo]
    ELSE LET mid == (lo + hi) \div 2
             left == MaxOfRange(ds, lo, mid)
             right == MaxOfRange(ds, mid + 1, hi)
         IN IF Int64Less(left, right) THEN right ELSE left

MaxDuration(ds) ==
    IF Len(ds) = 0 THEN Duration(0) ELSE MaxOfRange(ds, 1, Len(ds))

\* ---- query benchmark
\* RunQueries' scenarios: name and how far before now the range starts (hours)
Scenarios ==
    << [name |-> "1_hour", hours |-> 1],
       [name |-> "1_day", hours |-> 24],
       [name |-> "1_week", hours |-> 7 * 24],
       [name |-> "1_month", hours |-> 30 * 24] >>

ScenarioNames == { Scenarios[i].name : i \in 1..Len(Scenarios) }

\* the instants time.Now() may return (hours since day 0) and the latencies
\* time.Since(queryStart) may measure
QueryTimes == {720, 733}
Latencies == {1, 3}

\* t.Format("2006-01-02"): the calendar day of t
FormatDate(t) == t \div 24

\* fmt.Sprintf("%s to %s", start.Format(...), end.Format(...)); "" is <<>>
DateRangeOf(start, end) == <<FormatDate(start), FormatDate(end)>>

QueryConfigs ==
    [WarmupIterations : 0..MaxWarmup, QueryIterations : 0..MaxQueryIterations]

QueryIdleBut(configs, pc) ==
    /\ rq \in configs
    /\ qPc = pc
    /\ qNow = 0
    /\ scen = 1
    /\ qi = 0
    /\ durations = <<>>
    /\ errors = 0
    /\ queryResults = <<>>
    /\ qCalls = [n \in ScenarioNames |-> <<>>]
    /\ qReturned = [n \in ScenarioNames |-> 0]
    /\ qOk = [n \in ScenarioNames |-> 0]
    /\ qFail = [n \in ScenarioNames |-> 0]
    /\ warmupFailed = FALSE

RECURSIVE SeqsUpTo(_, _)
SeqsUpTo(S, n) ==
    IF n = 0 THEN {<<>>}
    ELSE SeqsUpTo(S, n - 1) \cup [1..n -> S]

StatsIdleBut(inputs, ps, pc) ==
    /\ samples \in inputs
    /\ pctP \in ps
    /\ pctPc = pc
    /\ sorted = <<>>
    /\ pctResult = Duration(0)
    /\ samplesBefore = samples
    /\ statResult = <<>>

\* the query benchmark and Percentile are not running
\* no caller is ranging over a generator of its own
ApiIdleBut(pc) ==
    /\ genCalls = 0
    /\ rangePc = pc
    /\ emitted = [k \in 1..MaxGenerateCalls |-> 0]

RestIdle ==
    /\ QueryIdleBut({[WarmupIterations |-> 0, QueryIterations |-> 0]}, "off")
    /\ StatsIdleBut({<<>>}, {0}, "off")
    /\ ApiIdleBut("off")

DirectIdleBut(pc) ==
    /\ dPc = pc
    /\ gPc = [db \in DbNames |-> "idle"]
    /\ gRes = [db \in DbNames |-> Results("", "none")]
    /\ gLog = [db \in DbNames |-> <<>>]
    /\ mu = ""
    /\ results = <<>>

InsInitWith(configs, pc) == InsInitIds(configs, pc, 1..MaxEvents)

InitInsert ==
    /\ InsInitWith(RunnerConfigs, "start")
    /\ ctxDone = FALSE
    /\ OrchIdleBut(<<>>, NoFlags, "off")
    /\ DirectIdleBut("off")
    /\ RestIdle

genVarsU == <<g, genPc, genBatch, ch, chClosed, genSeq>>
pumpVarsU == <<pumpPc, pumpBatch, received>>
workerVarsU == <<wPc, wBatch, wPrev, totalInserted, totalErrors, calls, okSize,
                 failedCalls, failedSize, lateDispatch, logged>>

\* --------------------------------------------------------- Runner.Preload
\* if r.PreloadCount <= 0 { return nil }
PreloadSkip ==
    /\ op = "Preload" /\ riPc = "start" /\ r.PreloadCount <= 0
    /\ riPc' = "done"
    /\ result' = [kind |-> "preload", err |-> FALSE]
    /\ UNCHANGED <<op, r, genVarsU, pumpVarsU, workerVarsU, batches, batchesClosed,
                   ctxDone, orchVars, restVars>>

\* ------------------------------------------------- Runner.parallelInsert
\* gen := generator.New(count, r.BatchSize); batches := make(chan, r.Workers*2);
\* r.Workers worker goroutines; go pumpBatches(gen.Generate(), batches); wg.Wait()
Dispatch ==
    /\ riPc = "start"
    /\ op = "Preload" => r.PreloadCount > 0
    /\ riPc' = "wait"
    /\ g' = New(InsertCount, r.BatchSize)
    /\ genPc' = "check"
    /\ pumpPc' = "recv"
    /\ wPc' = [w \in Workers |-> IF w <= r.Workers THEN "recv" ELSE "idle"]
    /\ UNCHANGED <<op, r, genBatch, ch, chClosed, genSeq, pumpBatch, received,
                   batches, batchesClosed, wBatch, wPrev, totalInserted, totalErrors,
                   calls, okSize, failedCalls, failedSize, lateDispatch, logged,
                   result, ctxDone, orchVars, restVars>>

\* ------------------------------------------------------ Generator.Generate
\* for g.current < g.totalEvents { size := min(batchSize, remaining); build batch }
\* and, when the loop ends, the deferred close(ch)
GenCheckNoTruncate ==
    /\ genPc = "check"
    /\ IF g.current < g.totalEvents
       THEN /\ genBatch' = [id |-> genSeq + 1, size |-> g.batchSize]
            /\ genSeq' = genSeq + 1
            /\ genPc' = "send"
            /\ UNCHANGED chClosed
       ELSE /\ chClosed' = TRUE
            /\ genPc' = "done"
            /\ UNCHANGED <<genBatch, genSeq>>
    /\ UNCHANGED <<op, r, riPc, g, ch, pumpVarsU, workerVarsU, batches, batchesClosed,
                   result, ctxDone, orchVars, restVars>>

GenCheck ==
    /\ genPc = "check"
    /\ IF g.current < g.totalEvents
       THEN LET remaining == g.totalEvents - g.current
                size == IF remaining < g.batchSize THEN remaining ELSE g.batchSize
            IN /\ genBatch' = [id |-> genSeq + 1, size |-> size]
               /\ genSeq' = genSeq + 1
               /\ genPc' = "send"
               /\ UNCHANGED chClosed
       ELSE /\ chClosed' = TRUE
            /\ genPc' = "done"
            /\ UNCHANGED <<genBatch, genSeq>>
    /\ UNCHANGED <<op, r, riPc, g, ch, pumpVarsU, workerVarsU, batches, batchesClosed,
                   result, ctxDone, orchVars, restVars>>

\* a send on a channel without a capacity
GenSendUnbounded ==
    /\ genPc = "send"
    /\ ch' = Append(ch, genBatch)
    /\ genPc' = "advance"
    /\ UNCHANGED <<op, r, riPc, g, genBatch, chClosed, genSeq, pumpVarsU, workerVarsU,
                   batches, batchesClosed, result, ctxDone, orchVars, restVars>>

\* ch <- batch   (blocks while the channel holds GenChanCap batches)
GenSend ==
    /\ genPc = "send"
    /\ Len(ch) < GenChanCap
    /\ ch' = Append(ch, genBatch)
    /\ genPc' = "advance"
    /\ UNCHANGED <<op, r, riPc, g, genBatch, chClosed, genSeq, pumpVarsU, workerVarsU,
                   batches, batchesClosed, result, ctxDone, orchVars, restVars>>

\* g.current += size
GenAdvance ==
    /\ genPc = "advance"
    /\ g' = [g EXCEPT !.current = @ + genBatch.size]
    /\ genBatch' = NoBatch
    /\ genPc' = "check"
    /\ UNCHANGED <<op, r, riPc, ch, chClosed, genSeq, pumpVarsU, workerVarsU,
                   batches, batchesClosed, result, ctxDone, orchVars, restVars>>

\* ------------------------------------------------------------ pumpBatches
\* for batch := range src
PumpRecv ==
    /\ pumpPc = "recv"
    /\ \/ /\ ch # <<>>
          /\ pumpBatch' = Head(ch)
          /\ ch' = Tail(ch)
          /\ received' = Append(received, Head(ch).size)
          /\ pumpPc' = "send"
       \/ /\ ch = <<>> /\ chClosed
          /\ pumpPc' = "close"
          /\ UNCHANGED <<pumpBatch, ch, received>>
    /\ UNCHANGED <<op, r, riPc, g, genPc, genBatch, chClosed, genSeq, workerVarsU,
                   batches, batchesClosed, result, ctxDone, orchVars, restVars>>

\* dst <- batch   (blocks while dst holds r.Workers*2 batches)
PumpSend ==
    /\ pumpPc = "send"
    /\ Len(batches) < r.Workers * 2
    /\ batches' = Append(batches, pumpBatch)
    /\ pumpBatch' = NoBatch
    /\ pumpPc' = "recv"
    /\ UNCHANGED <<op, r, riPc, genVarsU, received, workerVarsU, batchesClosed,
                   result, ctxDone, orchVars, restVars>>

\* close(dst)
PumpClose ==
    /\ pumpPc = "close"
    /\ batchesClosed' = TRUE
    /\ pumpPc' = "done"
    /\ UNCHANGED <<op, r, riPc, genVarsU, pumpBatch, received, workerVarsU, batches,
                   result, ctxDone, orchVars, restVars>>

\* -------------------------------------------------- Runner.consumeBatches
\* for batch := range batches { err := repo.InsertBatch(ctx, batch) ...
\* The receive and the start of the InsertBatch call are one step: nothing is
\* read or written between them.
WorkerRecvPeek(w) ==
    /\ wPc[w] = "recv"
    /\ batches # <<>>
    /\ wBatch' = [wBatch EXCEPT ![w] = Head(batches)]
    /\ calls' = [calls EXCEPT ![Head(batches).id] = @ + 1]
    /\ lateDispatch' = (lateDispatch \/ ctxDone)
    /\ wPc' = [wPc EXCEPT ![w] = "call"]
    /\ batches' = IF calls[Head(batches).id] = 0 THEN batches ELSE Tail(batches)
    /\ UNCHANGED <<op, r, riPc, genVarsU, pumpVarsU, batchesClosed, wPrev,
                   totalInserted, totalErrors, okSize, failedCalls, failedSize,
                   logged, result, ctxDone, orchVars, restVars>>

WorkerRecv(w) ==
    /\ wPc[w] = "recv"
    /\ batches # <<>>
    /\ wBatch' = [wBatch EXCEPT ![w] = Head(batches)]
    /\ batches' = Tail(batches)
    /\ calls' = [calls EXCEPT ![Head(batches).id] = @ + 1]
    /\ lateDispatch' = (lateDispatch \/ ctxDone)
    /\ wPc' = [wPc EXCEPT ![w] = "call"]
    /\ UNCHANGED <<op, r, riPc, genVarsU, pumpVarsU, batchesClosed, wPrev,
                   totalInserted, totalErrors, okSize, failedCalls, failedSize,
                   logged, result, ctxDone, orchVars, restVars>>

\* a worker that leaves its loop as soon as the queue is empty
WorkerExitOnEmpty(w) ==
    /\ wPc[w] = "recv"
    /\ batches = <<>>
    /\ wPc' = [wPc EXCEPT ![w] = "done"]
    /\ UNCHANGED <<op, r, riPc, genVarsU, pumpVarsU, batches, batchesClosed, wBatch,
                   wPrev, totalInserted, totalErrors, calls, okSize, failedCalls,
                   failedSize, lateDispatch, logged, result, ctxDone, orchVars, restVars>>

\* the range loop ends: channel closed and drained; deferred wg.Done()
WorkerExit(w) ==
    /\ wPc[w] = "recv"
    /\ batches = <<>> /\ batchesClosed
    /\ wPc' = [wPc EXCEPT ![w] = "done"]
    /\ UNCHANGED <<op, r, riPc, genVarsU, pumpVarsU, batches, batchesClosed, wBatch,
                   wPrev, totalInserted, totalErrors, calls, okSize, failedCalls,
                   failedSize, lateDispatch, logged, result, ctxDone, orchVars, restVars>>

\* repo.InsertBatch returns: nil or an error, as the target decides
InsertBatchReturn(w) ==
    /\ wPc[w] = "call"
    /\ \/ /\ wPc' = [wPc EXCEPT ![w] = "load"]
          /\ okSize' = okSize + wBatch[w].size
          /\ UNCHANGED <<failedCalls, failedSize>>
       \/ /\ wPc' = [wPc EXCEPT ![w] = "err"]
          /\ failedCalls' = failedCalls + 1
          /\ failedSize' = failedSize + wBatch[w].size
          /\ UNCHANGED okSize
    /\ UNCHANGED <<op, r, riPc, genVarsU, pumpVarsU, batches, batchesClosed, wBatch,
                   wPrev, totalInserted, totalErrors, calls, lateDispatch, logged,
                   result, ctxDone, orchVars, restVars>>

\* err != nil:  atomic.AddInt64(totalErrors, 1); continue
WorkerCountErrorRetry(w) ==
    /\ wPc[w] = "err"
    /\ totalErrors' = totalErrors + 1
    /\ calls' = [calls EXCEPT ![wBatch[w].id] = @ + 1]
    /\ wPc' = [wPc EXCEPT ![w] = "call"]
    /\ UNCHANGED <<op, r, riPc, genVarsU, pumpVarsU, batches, batchesClosed, wBatch,
                   wPrev, totalInserted, okSize, failedCalls, failedSize,
                   lateDispatch, logged, result, ctxDone, orchVars, restVars>>

WorkerCountError(w) ==
    /\ wPc[w] = "err"
    /\ totalErrors' = totalErrors + 1
    /\ wBatch' = [wBatch EXCEPT ![w] = NoBatch]
    /\ wPc' = [wPc EXCEPT ![w] = "recv"]
    /\ UNCHANGED <<op, r, riPc, genVarsU, pumpVarsU, batches, batchesClosed, wPrev,
                   totalInserted, calls, okSize, failedCalls, failedSize,
                   lateDispatch, logged, result, ctxDone, orchVars, restVars>>

\* prev := atomic.LoadInt64(totalInserted)
WorkerLoad(w) ==
    /\ wPc[w] = "load"
    /\ wPrev' = [wPrev EXCEPT ![w] = totalInserted]
    /\ wPc' = [wPc EXCEPT ![w] = "add"]
    /\ UNCHANGED <<op, r, riPc, genVarsU, pumpVarsU, batches, batchesClosed, wBatch,
                   totalInserted, totalErrors, calls, okSize, failedCalls,
                   failedSize, lateDispatch, logged, result, ctxDone, orchVars, restVars>>

\* an add that is not atomic: inserted := prev + len(batch) is stored
WorkerAddFromPrev(w) ==
    /\ wPc[w] = "add"
    /\ LET inserted == wPrev[w] + wBatch[w].size
       IN /\ totalInserted' = inserted
          /\ logged' = IF LogInterval > 0
                          /\ (wPrev[w] \div LogInterval) # (inserted \div LogInterval)
                       THEN logged \cup {inserted}
                       ELSE logged
    /\ wBatch' = [wBatch EXCEPT ![w] = NoBatch]
    /\ wPrev' = [wPrev EXCEPT ![w] = 0]
    /\ wPc' = [wPc EXCEPT ![w] = "recv"]
    /\ UNCHANGED <<op, r, riPc, genVarsU, pumpVarsU, batches, batchesClosed,
                   totalErrors, calls, okSize, failedCalls, failedSize,
                   lateDispatch, result, ctxDone, orchVars, restVars>>

\* inserted := atomic.AddInt64(totalInserted, len(batch))
\* if logInterval > 0 && prev/logInterval != inserted/logInterval { log.Printf }
WorkerAdd(w) ==
    /\ wPc[w] = "add"
    /\ LET inserted == totalInserted + wBatch[w].size
       IN /\ totalInserted' = inserted
          /\ logged' = IF LogInterval > 0
                          /\ (wPrev[w] \div LogInterval) # (inserted \div LogInterval)
                       THEN logged \cup {inserted}
                       ELSE logged
    /\ wBatch' = [wBatch EXCEPT ![w] = NoBatch]
    /\ wPrev' = [wPrev EXCEPT ![w] = 0]
    /\ wPc' = [wPc EXCEPT ![w] = "recv"]
    /\ UNCHANGED <<op, r, riPc, genVarsU, pumpVarsU, batches, batchesClosed,
                   totalErrors, calls, okSize, failedCalls, failedSize,
                   lateDispatch, result, ctxDone, orchVars, restVars>>

AllWorkersDone == \A w \in Workers : w <= r.Workers => wPc[w] = "done"

\* ------------------------------------------------------- Runner.RunInsert
\* wg.Wait() returns; duration := time.Since(start); build the InsertResult.
\* Throughput is the quotient float64(inserted)/duration.Seconds(), kept here
\* as the exact fraction num/den.
RunInsertReturnRequested ==
    /\ op = "RunInsert" /\ riPc = "wait" /\ AllWorkersDone
    /\ \E d \in 1..MaxSeconds :
         result' = [kind |-> "insert",
                    TotalEvents |-> r.EventCount,
                    Duration |-> d,
                    Throughput |-> [num |-> r.EventCount, den |-> d],
                    ErrorCount |-> totalErrors,
                    BatchSize |-> r.BatchSize,
                    WorkerCount |-> r.Workers]
    /\ riPc' = "done"
    /\ UNCHANGED <<op, r, genVarsU, pumpVarsU, workerVarsU, batches, batchesClosed,
                   ctxDone, orchVars, restVars>>

RunInsertReturn ==
    /\ op = "RunInsert" /\ riPc = "wait" /\ AllWorkersDone
    /\ \E d \in 1..MaxSeconds :
         result' = [kind |-> "insert",
                    TotalEvents |-> r.EventCount,
                    Duration |-> d,
                    Throughput |-> [num |-> totalInserted, den |-> d],
                    ErrorCount |-> totalErrors,
                    BatchSize |-> r.BatchSize,
                    WorkerCount |-> r.Workers]
    /\ riPc' = "done"
    /\ UNCHANGED <<op, r, genVarsU, pumpVarsU, workerVarsU, batches, batchesClosed,
                   ctxDone, orchVars, restVars>>

\* --------------------------------------------------------- Runner.Preload
\* if errors > 0 && inserted == 0 { return error }; return nil
PreloadReturnAnyError ==
    /\ op = "Preload" /\ riPc = "wait" /\ AllWorkersDone
    /\ result' = [kind |-> "preload", err |-> (totalErrors > 0)]
    /\ riPc' = "done"
    /\ UNCHANGED <<op, r, genVarsU, pumpVarsU, workerVarsU, batches, batchesClosed,
                   ctxDone, orchVars, restVars>>

PreloadReturn ==
    /\ op = "Preload" /\ riPc = "wait" /\ AllWorkersDone
    /\ result' = [kind |-> "preload", err |-> (totalErrors > 0 /\ totalInserted = 0)]
    /\ riPc' = "done"
    /\ UNCHANGED <<op, r, genVarsU, pumpVarsU, workerVarsU, batches, batchesClosed,
                   ctxDone, orchVars, restVars>>

\* ------------------------------------------------------------ environment
\* the caller's context is cancelled (signal.NotifyContext in main)
CancelInsert ==
    /\ ~ctxDone
    /\ riPc # "done"
    /\ ctxDone' = TRUE
    /\ UNCHANGED <<insVars, orchVars, restVars>>

NextInsert ==
    \/ PreloadSkip
    \/ Dispatch
    \/ GenCheck
    \/ GenSend
    \/ GenAdvance
    \/ PumpRecv
    \/ PumpSend
    \/ PumpClose
    \/ \E w \in Workers : WorkerRecv(w)
    \/ \E w \in Workers : WorkerExit(w)
    \/ \E w \in Workers : InsertBatchReturn(w)
    \/ \E w \in Workers : WorkerCountError(w)
    \/ \E w \in Workers : WorkerLoad(w)
    \/ \E w \in Workers : WorkerAdd(w)
    \/ RunInsertReturn
    \/ PreloadReturn
    \/ CancelInsert

SpecInsert == InitInsert /\ [][NextInsert]_vars

\* ---- the same program under the Go scheduler: a goroutine that can take a
\* step eventually takes one (the generator, the pump, each worker, and the
\* caller waiting on wg.Wait()), and every InsertBatch call returns
GeneratorStep == GenCheck \/ GenSend \/ GenAdvance

PumpStep == PumpRecv \/ PumpSend \/ PumpClose

WorkerStep(w) ==
    \/ WorkerRecv(w)
    \/ WorkerExit(w)
    \/ InsertBatchReturn(w)
    \/ WorkerCountError(w)
    \/ WorkerLoad(w)
    \/ WorkerAdd(w)

CallerStep == Dispatch \/ RunInsertReturn

FairInsert ==
    /\ WF_vars(GeneratorStep)
    /\ WF_vars(PumpStep)
    /\ \A w \in Workers : WF_vars(WorkerStep(w))
    /\ WF_vars(CallerStep)

\* RunInsert alone, with every configuration of events, batch size and workers
InitInsertFair ==
    /\ InsInitWith({c \in RunnerConfigs : c.PreloadCount = 0}, "start")
    /\ op = "RunInsert"
    /\ ctxDone = FALSE
    /\ OrchIdleBut(<<>>, NoFlags, "off")
    /\ DirectIdleBut("off")
    /\ RestIdle

NextInsertFair ==
    \/ GeneratorStep
    \/ PumpStep
    \/ \E w \in Workers : WorkerStep(w)
    \/ CallerStep

SpecInsertFair == InitInsertFair /\ [][NextInsertFair]_vars /\ FairInsert

\* ---- RunInsert on runs long enough to fill both channels: batches of one
\* event, one worker, more events than the generator's channel holds
PipelineConfigs ==
    { [EventCount |-> e, BatchSize |-> 1, Workers |-> 1, PreloadCount |-> 0] :
        e \in (GenChanCap + 1)..MaxPipelineEvents }

InitPipeline ==
    /\ InsInitIds(PipelineConfigs, "start", 1..MaxPipelineEvents)
    /\ op = "RunInsert"
    /\ ctxDone = FALSE
    /\ OrchIdleBut(<<>>, NoFlags, "off")
    /\ DirectIdleBut("off")
    /\ RestIdle

NextPipeline ==
    \/ GeneratorStep
    \/ PumpStep
    \/ \E w \in Workers : WorkerStep(w)
    \/ CallerStep

SpecPipeline == InitPipeline /\ [][NextPipeline]_vars

\* ---- RunInsert with two concurrent workers on a run that crosses the
\* logging interval: batches of one event (interval 10 * BatchSize = 10) and
\* one event more than the interval
ProgressConfigs ==
    { [EventCount |-> 11, BatchSize |-> 1, Workers |-> 2, PreloadCount |-> 0] }

InitProgress ==
    /\ InsInitIds(ProgressConfigs, "start", 1..r.EventCount)
    /\ op = "RunInsert"
    /\ ctxDone = FALSE
    /\ OrchIdleBut(<<>>, NoFlags, "off")
    /\ DirectIdleBut("off")
    /\ RestIdle

SpecProgress == InitProgress /\ [][NextPipeline]_vars

\* ---- a caller that owns a generator: gen := generator.New(total, size);
\* for batch := range gen.Generate() { ... }, and Generate() again on the same
\* instance once the range loop has ended
InitGenerate ==
    /\ InsInitWith({[EventCount |-> 0, BatchSize |-> 1, Workers |-> 1,
                     PreloadCount |-> 0]}, "off")
    /\ op = "RunInsert"
    /\ ctxDone = FALSE
    /\ OrchIdleBut(<<>>, NoFlags, "off")
    /\ DirectIdleBut("off")
    /\ QueryIdleBut({[WarmupIterations |-> 0, QueryIterations |-> 0]}, "off")
    /\ StatsIdleBut({<<>>}, {0}, "off")
    /\ ApiIdleBut("new")

apiOthers == <<op, r, riPc, pumpVarsU, workerVarsU, batches, batchesClosed, result,
               ctxDone, orchVars, directVars, queryVars, statsVars>>

\* gen := generator.New(totalEvents, batchSize)
NewGenerator ==
    /\ rangePc = "new"
    /\ \E totalEvents \in 0..MaxEvents, batchSize \in 1..MaxBatch :
         g' = New(totalEvents, batchSize)
    /\ rangePc' = "call"
    /\ UNCHANGED <<genPc, genBatch, ch, chClosed, genSeq, genCalls, emitted,
                   apiOthers>>

\* a Generate that sets g.current back to 0
GenerateCallResets ==
    /\ rangePc = "call"
    /\ genCalls < MaxGenerateCalls
    /\ g' = [g EXCEPT !.current = 0]
    /\ ch' = <<>>
    /\ chClosed' = FALSE
    /\ genPc' = "check"
    /\ genCalls' = genCalls + 1
    /\ rangePc' = "range"
    /\ UNCHANGED <<genBatch, genSeq, emitted, apiOthers>>

\* gen.Generate(): ch := make(chan []Event, 10); go func() {...}(); return ch.
\* Nothing but this new channel and goroutine is set up: g.current keeps its
\* value.
GenerateCall ==
    /\ rangePc = "call"
    /\ genCalls < MaxGenerateCalls
    /\ ch' = <<>>
    /\ chClosed' = FALSE
    /\ genPc' = "check"
    /\ genCalls' = genCalls + 1
    /\ rangePc' = "range"
    /\ UNCHANGED <<g, genBatch, genSeq, emitted, apiOthers>>

\* for batch := range ch: take a batch, or leave the loop when ch is closed
\* and empty
RangeRecv ==
    /\ rangePc = "range"
    /\ \/ /\ ch # <<>>
          /\ ch' = Tail(ch)
          /\ emitted' = [emitted EXCEPT ![genCalls] = @ + 1]
          /\ UNCHANGED rangePc
       \/ /\ ch = <<>> /\ chClosed
          /\ rangePc' = "call"
          /\ UNCHANGED <<ch, emitted>>
    /\ UNCHANGED <<g, genPc, genBatch, chClosed, genSeq, genCalls, apiOthers>>

NextGenerate ==
    \/ NewGenerator
    \/ GenerateCall
    \/ GenCheck
    \/ GenSend
    \/ GenAdvance
    \/ RangeRecv

SpecGenerate == InitGenerate /\ [][NextGenerate]_vars

\* ===================================================== managed run
CurDb == databases[idx]

InitManaged(dbTypes) ==
    /\ InsInitWith({[EventCount |-> 0, BatchSize |-> 1, Workers |-> 1,
                     PreloadCount |-> 0]}, "off")
    /\ op = "RunInsert"
    /\ ctxDone = FALSE
    /\ \E t \in dbTypes :
         \E fl \in [skipInsert : BOOLEAN, skipQuery : BOOLEAN, preload : BOOLEAN] :
            OrchIdleBut(getDatabases(t), fl, "loop")
    /\ DirectIdleBut("off")
    /\ RestIdle

\* ---------------------------------------------- runManagedBenchmarks
\* the range loop is over: return allResults
ManagedFinish ==
    /\ mPc = "loop" /\ idx > Len(databases)
    /\ mPc' = "done"
    /\ UNCHANGED <<databases, flags, idx, allResults, pending, svcState, startIssued,
                   startedOk, stopIssued, stopReturned, opLog, stopVars, bPc, wrVars,
                   ctxDone, insVars, restVars>>

\* ------------------------------------------------------ runManagedDB
\* ServiceByName fails: allResults[dbName] = &Results{Database, Error: unknown}
ManagedUnknown ==
    /\ mPc = "loop" /\ idx <= Len(databases)
    /\ ~ServiceByName(CurDb)
    /\ allResults' = MapPut(allResults, CurDb, Results(CurDb, "unknown"))
    /\ idx' = idx + 1
    /\ opLog' = <<>>
    /\ UNCHANGED <<databases, flags, mPc, pending, svcState, startIssued, startedOk,
                   stopIssued, stopReturned, stopVars, bPc, wrVars, ctxDone, insVars, restVars>>

\* ----------------------------------------------- runManagedBenchmark
\* orchestrator.StartService(ctx, svc.Service) is called: docker-compose up -d
ManagedStart ==
    /\ mPc = "loop" /\ idx <= Len(databases)
    /\ ServiceByName(CurDb)
    /\ mPc' = "start"
    /\ svcState' = [svcState EXCEPT ![CurDb] = "Starting"]
    /\ startIssued' = startIssued \cup {CurDb}
    /\ opLog' = <<"Start">>
    /\ UNCHANGED <<databases, flags, idx, allResults, pending, startedOk, stopIssued,
                   stopReturned, stopVars, bPc, wrVars, ctxDone, insVars, restVars>>

\* StartService returns nil; WaitReady(ctx, svc) is entered
StartServiceOk ==
    /\ mPc = "start"
    /\ ~ctxDone
    /\ startedOk' = startedOk \cup {CurDb}
    /\ svcState' = [svcState EXCEPT ![CurDb] = "WaitingReady"]
    /\ mPc' = "waitready"
    /\ opLog' = Append(opLog, "WaitReady")
    /\ wrPc' = "grace"
    /\ wrResult' = "none"
    /\ now' = 0
    /\ pollStart' = 0
    /\ nextTick' = 0
    /\ graceFired' = FALSE
    /\ deadlineFired' = FALSE
    /\ tickPending' = FALSE
    /\ probeStart' = 0
    /\ probeSucceeded' = FALSE
    /\ UNCHANGED <<databases, flags, idx, allResults, pending, startIssued, stopIssued,
                   stopReturned, stopVars, bPc, ctxDone, insVars, restVars>>

\* StartService returns an error: return &Results{Database: svc.Name, Error: err}
StartServiceFailWaits ==
    /\ mPc = "start"
    /\ svcState' = [svcState EXCEPT ![CurDb] = "WaitingReady"]
    /\ mPc' = "waitready"
    /\ opLog' = Append(opLog, "WaitReady")
    /\ wrPc' = "grace"
    /\ UNCHANGED <<databases, flags, idx, allResults, pending, startIssued, startedOk,
                   stopIssued, stopReturned, stopVars, bPc, wrResult, wrLocals,
                   ctxDone, insVars, restVars>>

StartServiceFail ==
    /\ mPc = "start"
    /\ svcState' = [svcState EXCEPT ![CurDb] = "Failed"]
    /\ allResults' = MapPut(allResults, CurDb, Results(CurDb, "start"))
    /\ idx' = idx + 1
    /\ mPc' = "loop"
    /\ UNCHANGED <<databases, flags, pending, startIssued, startedOk, stopIssued,
                   stopReturned, opLog, stopVars, bPc, wrVars, ctxDone, insVars, restVars>>

\* ------------------------------------------------ orchestrator.WaitReady
\* select { case <-time.After(5s): ...}  the grace timer has fired;
\* deadline := time.After(60s); ticker := time.NewTicker(2s)
WRGraceSkipped ==
    /\ wrPc = "grace"
    /\ wrPc' = "poll"
    /\ pollStart' = now
    /\ nextTick' = now + TickInterval
    /\ deadlineFired' = FALSE
    /\ tickPending' = FALSE
    /\ UNCHANGED <<wrResult, now, graceFired, probeStart, probeSucceeded, drvVars,
                   stopVars, bPc, ctxDone, insVars, restVars>>

WRGraceElapsed ==
    /\ wrPc = "grace"
    /\ graceFired
    /\ wrPc' = "poll"
    /\ pollStart' = now
    /\ nextTick' = now + TickInterval
    /\ deadlineFired' = FALSE
    /\ tickPending' = FALSE
    /\ UNCHANGED <<wrResult, now, graceFired, probeStart, probeSucceeded, drvVars,
                   stopVars, bPc, ctxDone, insVars, restVars>>

\* select { ... case <-ctx.Done(): return ctx.Err() }   (grace period)
WRGraceCancel ==
    /\ wrPc = "grace"
    /\ ctxDone
    /\ wrPc' = "done"
    /\ wrResult' = "cancelled"
    /\ UNCHANGED <<wrLocals, drvVars, stopVars, bPc, ctxDone, insVars, restVars>>

\* for { select { case <-ctx.Done(): return ctx.Err() ...
WRPollCancelAfterTick ==
    /\ wrPc = "poll"
    /\ ctxDone
    /\ tickPending
    /\ wrPc' = "done"
    /\ wrResult' = "cancelled"
    /\ UNCHANGED <<wrLocals, drvVars, stopVars, bPc, ctxDone, insVars, restVars>>

WRPollCancel ==
    /\ wrPc = "poll"
    /\ ctxDone
    /\ wrPc' = "done"
    /\ wrResult' = "cancelled"
    /\ UNCHANGED <<wrLocals, drvVars, stopVars, bPc, ctxDone, insVars, restVars>>

\* case <-deadline: return fmt.Errorf("%s: readiness timeout after 60s")
WRPollDeadline ==
    /\ wrPc = "poll"
    /\ deadlineFired
    /\ wrPc' = "done"
    /\ wrResult' = "timeout"
    /\ UNCHANGED <<wrLocals, drvVars, stopVars, bPc, ctxDone, insVars, restVars>>

\* case <-ticker.C: runReadyCheck(ctx, svc.ReadyCheck) is started
WRPollTick ==
    /\ wrPc = "poll"
    /\ tickPending
    /\ tickPending' = FALSE
    /\ wrPc' = "probe"
    /\ probeStart' = now
    /\ UNCHANGED <<wrResult, now, pollStart, nextTick, graceFired, deadlineFired,
                   probeSucceeded, drvVars, stopVars, bPc, ctxDone, insVars, restVars>>

\* runReadyCheck returns: nil -> return nil; error -> next loop iteration.
\* A command whose context is cancelled is killed and returns an error.
WRProbeReturnKeepPolling ==
    /\ wrPc = "probe"
    /\ \E ok \in BOOLEAN :
         /\ ok => ~ctxDone
         /\ probeSucceeded' = ok
         /\ wrPc' = "poll"
         /\ UNCHANGED wrResult
    /\ UNCHANGED <<now, pollStart, nextTick, graceFired, deadlineFired, tickPending,
                   probeStart, drvVars, stopVars, bPc, ctxDone, insVars, restVars>>

WRProbeReturn ==
    /\ wrPc = "probe"
    /\ \E ok \in BOOLEAN :
         /\ ok => ~ctxDone
         /\ probeSucceeded' = ok
         /\ IF ok
            THEN wrPc' = "done" /\ wrResult' = "ok"
            ELSE wrPc' = "poll" /\ UNCHANGED wrResult
    /\ UNCHANGED <<now, pollStart, nextTick, graceFired, deadlineFired, tickPending,
                   probeStart, drvVars, stopVars, bPc, ctxDone, insVars, restVars>>

\* The goroutine inside WaitReady can take a step without time passing.
WRCanProceed ==
    ENABLED (WRGraceElapsed \/ WRGraceCancel \/ WRPollCancel \/ WRPollDeadline
             \/ WRPollTick)

\* One second passes while WaitReady is blocked in a select with no case
\* ready, or while the readiness command runs (at most MaxProbeTime, and not
\* once its context is cancelled). A timer whose time has come delivers into
\* its one-slot channel; a tick that finds the slot full is dropped.
Tick ==
    /\ now < MaxClock
    /\ \/ wrPc \in {"grace", "poll"} /\ ~WRCanProceed
       \/ wrPc = "probe" /\ now - probeStart < MaxProbeTime /\ ~ctxDone
    /\ now' = now + 1
    /\ graceFired' = (graceFired \/ (wrPc = "grace" /\ now + 1 >= GraceDelay))
    /\ deadlineFired' = (deadlineFired \/ (wrPc \in {"poll", "probe"}
                                           /\ now + 1 >= pollStart + ReadyDeadline))
    /\ IF wrPc \in {"poll", "probe"} /\ now + 1 >= nextTick
       THEN tickPending' = TRUE /\ nextTick' = nextTick + TickInterval
       ELSE UNCHANGED <<tickPending, nextTick>>
    /\ UNCHANGED <<wrPc, wrResult, pollStart, probeStart, probeSucceeded, drvVars,
                   stopVars, bPc, ctxDone, insVars, restVars>>

\* The same timers without the clock: a pending timer may fire at any moment.
TimerFire ==
    /\ \/ /\ wrPc = "grace" /\ ~graceFired
          /\ graceFired' = TRUE
          /\ UNCHANGED <<deadlineFired, tickPending>>
       \/ /\ wrPc \in {"poll", "probe"} /\ ~tickPending
          /\ tickPending' = TRUE
          /\ UNCHANGED <<graceFired, deadlineFired>>
       \/ /\ wrPc \in {"poll", "probe"} /\ ~deadlineFired
          /\ deadlineFired' = TRUE
          /\ UNCHANGED <<graceFired, tickPending>>
    /\ UNCHANGED <<wrPc, wrResult, now, pollStart, nextTick, probeStart,
                   probeSucceeded, drvVars, stopVars, bPc, ctxDone, insVars, restVars>>

\* WaitReady's result has been consumed: its locals and timers are gone
WRFrameGone ==
    /\ wrPc' = "idle"
    /\ wrResult' = "none"
    /\ now' = 0
    /\ pollStart' = 0
    /\ nextTick' = 0
    /\ graceFired' = FALSE
    /\ deadlineFired' = FALSE
    /\ tickPending' = FALSE
    /\ probeStart' = 0
    /\ probeSucceeded' = FALSE

\* ----------------------------------------------- runManagedBenchmark
\* WaitReady returned nil: runBenchmark(ctx, cfg, runner, svc.Name) is entered
ManagedReady ==
    /\ mPc = "waitready" /\ wrPc = "done" /\ wrResult = "ok"
    /\ svcState' = [svcState EXCEPT ![CurDb] = "Ready"]
    /\ mPc' = "bench"
    /\ bPc' = "connect"
    /\ WRFrameGone
    /\ UNCHANGED <<databases, flags, idx, allResults, pending, startIssued, startedOk,
                   stopIssued, stopReturned, opLog, stopVars, ctxDone, insVars, restVars>>

\* a readiness failure that returns the error without calling StopService
ManagedNotReadySkipsStop ==
    /\ mPc = "waitready" /\ wrPc = "done" /\ wrResult \in {"timeout", "cancelled"}
    /\ svcState' = [svcState EXCEPT ![CurDb] = "Failed"]
    /\ allResults' = MapPut(allResults, CurDb, Results(CurDb, wrResult))
    /\ idx' = idx + 1
    /\ mPc' = "loop"
    /\ WRFrameGone
    /\ UNCHANGED <<databases, flags, pending, startIssued, startedOk, stopIssued,
                   stopReturned, opLog, stopVars, bPc, ctxDone, insVars, restVars>>

\* WaitReady returned an error: StopService is called, then the error returned
ManagedNotReady ==
    /\ mPc = "waitready" /\ wrPc = "done" /\ wrResult \in {"timeout", "cancelled"}
    /\ svcState' = [svcState EXCEPT ![CurDb] = "Failed"]
    /\ pending' = Results(CurDb, wrResult)
    /\ mPc' = "stop"
    /\ stopPc' = "stop"
    /\ stopErr' = FALSE
    /\ stopIssued' = stopIssued \cup {CurDb}
    /\ opLog' = Append(opLog, "Stop")
    /\ WRFrameGone
    /\ UNCHANGED <<databases, flags, idx, allResults, startIssued, startedOk,
                   stopReturned, stopResult, rmReturned, bPc, ctxDone, insVars, restVars>>

\* runBenchmark returned: result.Database = svc.Name; StopService is called
ManagedSkipStop ==
    /\ mPc = "bench" /\ bPc = "returned"
    /\ allResults' = MapPut(allResults, CurDb, [pending EXCEPT !.Database = CurDb])
    /\ idx' = idx + 1
    /\ mPc' = "loop"
    /\ bPc' = "idle"
    /\ UNCHANGED <<databases, flags, pending, svcState, startIssued, startedOk,
                   stopIssued, stopReturned, opLog, stopVars, wrVars, ctxDone, insVars, restVars>>

ManagedStop ==
    /\ mPc = "bench" /\ bPc = "returned"
    /\ pending' = [pending EXCEPT !.Database = CurDb]
    /\ svcState' = [svcState EXCEPT ![CurDb] = "Stopping"]
    /\ mPc' = "stop"
    /\ stopPc' = "stop"
    /\ stopErr' = FALSE
    /\ stopIssued' = stopIssued \cup {CurDb}
    /\ opLog' = Append(opLog, "Stop")
    /\ bPc' = "idle"
    /\ UNCHANGED <<databases, flags, idx, allResults, startIssued, startedOk,
                   stopReturned, stopResult, rmReturned, wrVars, ctxDone, insVars, restVars>>

\* StopService returned (its error is only logged): return the result, which
\* runManagedBenchmarks stores under dbName
ManagedReturn ==
    /\ mPc = "stopped"
    /\ allResults' = MapPut(allResults, CurDb, pending)
    /\ svcState' = [svcState EXCEPT
                      ![CurDb] = IF @ = "Stopping" THEN "Stopped" ELSE @]
    /\ idx' = idx + 1
    /\ mPc' = "loop"
    /\ pending' = Results("", "none")
    /\ stopErr' = FALSE
    /\ stopResult' = "none"
    /\ rmReturned' = "none"
    /\ UNCHANGED <<databases, flags, startIssued, startedOk, stopIssued,
                   stopReturned, opLog, stopPc, bPc, wrVars, ctxDone, insVars, restVars>>

\* ---------------------------------------------- orchestrator.StopService
\* err := stop.Run()   (docker-compose stop; a failure is logged)
StopGracefulReturnsError ==
    /\ mPc = "stop" /\ stopPc = "stop"
    /\ \E ok \in BOOLEAN :
         /\ ok => ~ctxDone
         /\ stopErr' = ~ok
         /\ IF ok
            THEN /\ stopPc' = "rm"
                 /\ UNCHANGED <<drvVars, stopResult>>
            ELSE /\ stopPc' = "idle"
                 /\ stopResult' = "error"
                 /\ stopReturned' = stopReturned \cup {CurDb}
                 /\ mPc' = "stopped"
                 /\ UNCHANGED <<databases, flags, idx, allResults, pending, svcState,
                                startIssued, startedOk, stopIssued, opLog>>
    /\ UNCHANGED <<rmReturned, bPc, wrVars, ctxDone, insVars, restVars>>

StopGraceful ==
    /\ mPc = "stop" /\ stopPc = "stop"
    /\ \E ok \in BOOLEAN :
         /\ ok => ~ctxDone
         /\ stopErr' = ~ok
    /\ stopPc' = "rm"
    /\ UNCHANGED <<drvVars, stopResult, rmReturned, bPc, wrVars, ctxDone, insVars, restVars>>

\* return rm.Run()    (docker-compose rm -f)
StopRemove ==
    /\ mPc = "stop" /\ stopPc = "rm"
    /\ \E ok \in BOOLEAN :
         /\ ok => ~ctxDone
         /\ stopResult' = IF ok THEN "nil" ELSE "error"
         /\ rmReturned' = IF ok THEN "nil" ELSE "error"
    /\ stopPc' = "idle"
    /\ stopReturned' = stopReturned \cup {CurDb}
    /\ mPc' = "stopped"
    /\ UNCHANGED <<databases, flags, idx, allResults, pending, svcState, startIssued,
                   startedOk, stopIssued, opLog, stopErr, bPc, wrVars, ctxDone, insVars, restVars>>

\* ------------------------------------------------------- runBenchmark
\* repo, err := newRepo(ctx, dbName, cfg)
BenchConnect ==
    /\ mPc = "bench" /\ bPc = "connect"
    /\ opLog' = Append(opLog, "Connect")
    /\ \/ bPc' = "schema" /\ UNCHANGED pending
       \/ bPc' = "returned" /\ pending' = Results("", "connect")
    /\ UNCHANGED <<databases, flags, idx, mPc, allResults, svcState, startIssued,
                   startedOk, stopIssued, stopReturned, stopVars, wrVars, ctxDone,
                   insVars, restVars>>

\* repo.InitSchema(ctx)
BenchInitSchema ==
    /\ mPc = "bench" /\ bPc = "schema"
    /\ opLog' = Append(opLog, "InitSchema")
    /\ \/ bPc' = "preload" /\ UNCHANGED pending
       \/ bPc' = "close" /\ pending' = Results("", "schema")
    /\ UNCHANGED <<databases, flags, idx, mPc, allResults, svcState, startIssued,
                   startedOk, stopIssued, stopReturned, stopVars, wrVars, ctxDone,
                   insVars, restVars>>

\* preloadIfNeeded, then executeBenchmark creates res := &Results{Database: dbName}
BenchPreload ==
    /\ mPc = "bench" /\ bPc = "preload"
    /\ IF flags.preload
       THEN /\ opLog' = Append(opLog, "Preload")
            /\ \/ bPc' = "insert" /\ pending' = Results(CurDb, "none")
               \/ bPc' = "close" /\ pending' = Results("", "preload")
       ELSE /\ bPc' = "insert" /\ pending' = Results(CurDb, "none")
            /\ UNCHANGED opLog
    /\ UNCHANGED <<databases, flags, idx, mPc, allResults, svcState, startIssued,
                   startedOk, stopIssued, stopReturned, stopVars, wrVars, ctxDone,
                   insVars, restVars>>

\* executeBenchmark: if !*skipInsert { res.Insert = runner.RunInsert(ctx, repo) }
BenchInsert ==
    /\ mPc = "bench" /\ bPc = "insert"
    /\ IF flags.skipInsert
       THEN UNCHANGED <<pending, opLog>>
       ELSE /\ pending' = [pending EXCEPT !.Insert = TRUE]
            /\ opLog' = Append(opLog, "RunInsert")
    /\ bPc' = "queries"
    /\ UNCHANGED <<databases, flags, idx, mPc, allResults, svcState, startIssued,
                   startedOk, stopIssued, stopReturned, stopVars, wrVars, ctxDone,
                   insVars, restVars>>

\* executeBenchmark: if !*skipQuery { res.Queries = runner.RunQueries(ctx, repo) }
BenchQueries ==
    /\ mPc = "bench" /\ bPc = "queries"
    /\ IF flags.skipQuery
       THEN UNCHANGED <<pending, opLog>>
       ELSE /\ pending' = [pending EXCEPT !.Queries = TRUE]
            /\ opLog' = Append(opLog, "RunQueries")
    /\ bPc' = "storage"
    /\ UNCHANGED <<databases, flags, idx, mPc, allResults, svcState, startIssued,
                   startedOk, stopIssued, stopReturned, stopVars, wrVars, ctxDone,
                   insVars, restVars>>

\* executeBenchmark: if s := repo.GetStorageStats(ctx); s != nil { res.Storage = s }
BenchStorage ==
    /\ mPc = "bench" /\ bPc = "storage"
    /\ opLog' = Append(opLog, "GetStorageStats")
    /\ \E s \in BOOLEAN : pending' = [pending EXCEPT !.Storage = s]
    /\ bPc' = "close"
    /\ UNCHANGED <<databases, flags, idx, mPc, allResults, svcState, startIssued,
                   startedOk, stopIssued, stopReturned, stopVars, wrVars, ctxDone,
                   insVars, restVars>>

\* the deferred repo.Close(); runBenchmark returns
BenchClose ==
    /\ mPc = "bench" /\ bPc = "close"
    /\ opLog' = Append(opLog, "Close")
    /\ bPc' = "returned"
    /\ UNCHANGED <<databases, flags, idx, mPc, allResults, pending, svcState,
                   startIssued, startedOk, stopIssued, stopReturned, stopVars, wrVars,
                   ctxDone, insVars, restVars>>

\* the context of runManaged is cancelled (SIGINT / SIGTERM)
CancelManaged ==
    /\ ~ctxDone
    /\ mPc \notin {"off", "done"}
    /\ ctxDone' = TRUE
    /\ UNCHANGED <<insVars, orchVars, restVars>>

ManagedSteps ==
    \/ ManagedFinish
    \/ ManagedUnknown
    \/ ManagedStart
    \/ StartServiceOk
    \/ StartServiceFail
    \/ WRGraceElapsed
    \/ WRGraceCancel
    \/ WRPollCancel
    \/ WRPollDeadline
    \/ WRPollTick
    \/ WRProbeReturn
    \/ ManagedReady
    \/ ManagedNotReady
    \/ ManagedStop
    \/ ManagedReturn
    \/ StopGraceful
    \/ StopRemove
    \/ BenchConnect
    \/ BenchInitSchema
    \/ BenchPreload
    \/ BenchInsert
    \/ BenchQueries
    \/ BenchStorage
    \/ BenchClose
    \/ CancelManaged

\* the managed run of every -db value, timers firing at any moment
NextManaged == ManagedSteps \/ TimerFire

SpecManaged == InitManaged(DbTypes) /\ [][NextManaged]_vars

\* the managed run of one backend, timers driven by the clock
NextTimed == ManagedSteps \/ Tick

SpecTimed == InitManaged({"postgres", "mysql"}) /\ [][NextTimed]_vars

\* ====================================================== direct run
InitDirect(dbTypes) ==
    /\ InsInitWith({[EventCount |-> 0, BatchSize |-> 1, Workers |-> 1,
                     PreloadCount |-> 0]}, "off")
    /\ op = "RunInsert"
    /\ ctxDone = FALSE
    /\ \E t \in dbTypes :
         \E fl \in [skipInsert : BOOLEAN, skipQuery : BOOLEAN, preload : BOOLEAN] :
            OrchIdleBut(getDatabases(t), fl, "off")
    /\ DirectIdleBut("start")
    /\ RestIdle

Requested == { databases[i] : i \in 1..Len(databases) }

directOthers == <<insVars, ctxDone, orchVars, queryVars, statsVars, apiVars>>

\* ---------------------------------------------------- runAllBenchmarks
\* for _, db := range databases { wg.Add(1); go func(dbName) {...}(db) }
DirectSpawn ==
    /\ dPc = "start"
    /\ dPc' = "wait"
    /\ gPc' = [db \in DbNames |-> IF db \in Requested THEN "connect" ELSE "idle"]
    /\ UNCHANGED <<gRes, gLog, mu, results, directOthers>>

\* ------------------------------------- runBenchmark, in goroutine db
\* repo, err := newRepo(ctx, dbName, cfg); an error returns &Results{Error: err}
DirectConnectFatal(db) ==
    /\ dPc = "wait" /\ gPc[db] = "connect"
    /\ \/ /\ Supported(db)
          /\ gLog' = [gLog EXCEPT ![db] = Append(@, "Connect")]
          /\ gPc' = [gPc EXCEPT ![db] = "schema"]
          /\ UNCHANGED <<gRes, dPc>>
       \/ /\ gLog' = [gLog EXCEPT ![db] = @ \o <<"Connect", "error">>]
          /\ gRes' = [gRes EXCEPT ![db] = Results("", "connect")]
          /\ gPc' = [gPc EXCEPT ![db] = "done"]
          /\ dPc' = "done"
    /\ UNCHANGED <<mu, results, directOthers>>

DirectConnect(db) ==
    /\ dPc = "wait" /\ gPc[db] = "connect"
    /\ \/ /\ Supported(db)
          /\ gLog' = [gLog EXCEPT ![db] = Append(@, "Connect")]
          /\ gPc' = [gPc EXCEPT ![db] = "schema"]
          /\ UNCHANGED gRes
       \/ /\ gLog' = [gLog EXCEPT ![db] = @ \o <<"Connect", "error">>]
          /\ gRes' = [gRes EXCEPT ![db] = Results("", "connect")]
          /\ gPc' = [gPc EXCEPT ![db] = "lock"]
    /\ UNCHANGED <<dPc, mu, results, directOthers>>

\* repo.InitSchema(ctx); an error returns &Results{Error: err} through the
\* deferred repo.Close()
DirectInitSchema(db) ==
    /\ dPc = "wait" /\ gPc[db] = "schema"
    /\ \/ /\ gLog' = [gLog EXCEPT ![db] = Append(@, "InitSchema")]
          /\ gPc' = [gPc EXCEPT ![db] = "preload"]
          /\ UNCHANGED gRes
       \/ /\ gLog' = [gLog EXCEPT ![db] = @ \o <<"InitSchema", "error", "Close">>]
          /\ gRes' = [gRes EXCEPT ![db] = Results("", "schema")]
          /\ gPc' = [gPc EXCEPT ![db] = "lock"]
    /\ UNCHANGED <<dPc, mu, results, directOthers>>

\* preloadIfNeeded: runner.Preload is called when PreloadCount > 0; an error
\* returns &Results{Error: err} through the deferred repo.Close()
DirectPreloadContinues(db) ==
    /\ dPc = "wait" /\ gPc[db] = "preload"
    /\ IF flags.preload
       THEN \/ /\ gLog' = [gLog EXCEPT ![db] = Append(@, "Preload")]
               /\ UNCHANGED gRes
            \/ /\ gLog' = [gLog EXCEPT ![db] = @ \o <<"Preload", "error">>]
               /\ gRes' = [gRes EXCEPT ![db] = Results("", "preload")]
       ELSE UNCHANGED <<gLog, gRes>>
    /\ gPc' = [gPc EXCEPT ![db] = "execute"]
    /\ UNCHANGED <<dPc, mu, results, directOthers>>

DirectPreload(db) ==
    /\ dPc = "wait" /\ gPc[db] = "preload"
    /\ IF flags.preload
       THEN \/ /\ gLog' = [gLog EXCEPT ![db] = Append(@, "Preload")]
               /\ gPc' = [gPc EXCEPT ![db] = "execute"]
               /\ UNCHANGED gRes
            \/ /\ gLog' = [gLog EXCEPT ![db] = @ \o <<"Preload", "error", "Close">>]
               /\ gRes' = [gRes EXCEPT ![db] = Results("", "preload")]
               /\ gPc' = [gPc EXCEPT ![db] = "lock"]
       ELSE /\ gPc' = [gPc EXCEPT ![db] = "execute"]
            /\ UNCHANGED <<gLog, gRes>>
    /\ UNCHANGED <<dPc, mu, results, directOthers>>

\* executeBenchmark: res := &Results{Database: dbName}; RunInsert unless
\* -skip-insert; RunQueries unless -skip-query; GetStorageStats (kept when not
\* nil); return res through the deferred repo.Close()
DirectExecute(db) ==
    /\ dPc = "wait" /\ gPc[db] = "execute"
    /\ gLog' = [gLog EXCEPT ![db] =
                  @ \o (IF flags.skipInsert THEN <<>> ELSE <<"RunInsert">>)
                    \o (IF flags.skipQuery THEN <<>> ELSE <<"RunQueries">>)
                    \o <<"GetStorageStats", "Close">>]
    /\ \E s \in BOOLEAN :
         gRes' = [gRes EXCEPT ![db] =
                    [Database |-> db, Error |-> "none",
                     Insert |-> ~flags.skipInsert, Queries |-> ~flags.skipQuery,
                     Storage |-> s]]
    /\ gPc' = [gPc EXCEPT ![db] = "lock"]
    /\ UNCHANGED <<dPc, mu, results, directOthers>>

\* ---------------------------------- runAllBenchmarks, goroutine db
\* mu.Lock()
DirectLock(db) ==
    /\ dPc = "wait" /\ gPc[db] = "lock"
    /\ mu = ""
    /\ mu' = db
    /\ gPc' = [gPc EXCEPT ![db] = "store"]
    /\ UNCHANGED <<dPc, gRes, gLog, results, directOthers>>

\* results[dbName] = result; mu.Unlock(); deferred wg.Done()
DirectStore(db) ==
    /\ dPc = "wait" /\ gPc[db] = "store"
    /\ results' = MapPut(results, db, gRes[db])
    /\ mu' = ""
    /\ gPc' = [gPc EXCEPT ![db] = "done"]
    /\ UNCHANGED <<dPc, gRes, gLog, directOthers>>

\* wg.Wait() returns; return results
DirectWait ==
    /\ dPc = "wait"
    /\ \A db \in Requested : gPc[db] = "done"
    /\ dPc' = "done"
    /\ UNCHANGED <<gPc, gRes, gLog, mu, results, directOthers>>

NextDirect ==
    \/ DirectSpawn
    \/ \E db \in DbNames : DirectConnect(db)
    \/ \E db \in DbNames : DirectInitSchema(db)
    \/ \E db \in DbNames : DirectPreload(db)
    \/ \E db \in DbNames : DirectExecute(db)
    \/ \E db \in DbNames : DirectLock(db)
    \/ \E db \in DbNames : DirectStore(db)
    \/ DirectWait

\* the program in either mode: main calls runManaged or runDirect
InitRun == InitManaged(DbTypes) \/ InitDirect(DbTypes)

NextRun == NextManaged \/ NextDirect

SpecRun == InitRun /\ [][NextRun]_vars

\* ================================================== query benchmark
InitQueries ==
    /\ InsInitWith({[EventCount |-> 0, BatchSize |-> 1, Workers |-> 1,
                     PreloadCount |-> 0]}, "off")
    /\ op = "RunInsert"
    /\ ctxDone = FALSE
    /\ OrchIdleBut(<<>>, NoFlags, "off")
    /\ DirectIdleBut("off")
    /\ QueryIdleBut(QueryConfigs, "start")
    /\ StatsIdleBut({<<>>}, {0}, "off")
    /\ ApiIdleBut("off")

queryOthers == <<insVars, ctxDone, orchVars, directVars, statsVars, apiVars>>

CurScenario == Scenarios[scen]

\* the QueryResult runQuery builds from measureQuery's results
QueryResultAlwaysFull(name, ds, errs, start, end) ==
    [QueryName |-> name, Iterations |-> Len(ds),
     AvgDuration |-> AvgDuration(ds), MinDuration |-> MinDuration(ds),
     MaxDuration |-> MaxDuration(ds), P50Duration |-> Percentile(ds, 50),
     P95Duration |-> Percentile(ds, 95), P99Duration |-> Percentile(ds, 99),
     ErrorCount |-> errs, DateRange |-> DateRangeOf(start, end)]

QueryResult(name, ds, errs, start, end) ==
    IF Len(ds) = 0
    THEN [QueryName |-> name, Iterations |-> 0,
          AvgDuration |-> Duration(0), MinDuration |-> Duration(0),
          MaxDuration |-> Duration(0), P50Duration |-> Duration(0),
          P95Duration |-> Duration(0), P99Duration |-> Duration(0),
          ErrorCount |-> errs, DateRange |-> <<>>]
    ELSE [QueryName |-> name, Iterations |-> Len(ds),
          AvgDuration |-> AvgDuration(ds), MinDuration |-> MinDuration(ds),
          MaxDuration |-> MaxDuration(ds), P50Duration |-> Percentile(ds, 50),
          P95Duration |-> Percentile(ds, 95), P99Duration |-> Percentile(ds, 99),
          ErrorCount |-> errs, DateRange |-> DateRangeOf(start, end)]

\* ------------------------------------------------------ Runner.RunQueries
\* results := make(map); now := time.Now(); the range loop enters runQuery
\* for the first scenario
RunQueriesStart ==
    /\ qPc = "start"
    /\ qNow' \in QueryTimes
    /\ queryResults' = <<>>
    /\ scen' = 1
    /\ qi' = 0
    /\ qPc' = "warmup"
    /\ UNCHANGED <<rq, durations, errors, qCalls, qReturned, qOk, qFail,
                   warmupFailed, queryOthers>>

\* -------------------------------------------------------- Runner.runQuery
\* for i := 0; i < r.WarmupIterations; i++ { repo.GetEventStats(...) is called
WarmupCall ==
    /\ qPc = "warmup"
    /\ qi < rq.WarmupIterations
    /\ qPc' = "warmupCall"
    /\ qCalls' = [qCalls EXCEPT ![CurScenario.name] = Append(@, "warmup")]
    /\ UNCHANGED <<rq, qNow, scen, qi, durations, errors, queryResults, qReturned,
                   qOk, qFail, warmupFailed, queryOthers>>

\* _, _ = repo.GetEventStats(...) returns: result and error are dropped; i++
WarmupReturnBreaks ==
    /\ qPc = "warmupCall"
    /\ qReturned' = [qReturned EXCEPT ![CurScenario.name] = @ + 1]
    /\ \E ok \in BOOLEAN :
         /\ warmupFailed' = (warmupFailed \/ ~ok)
         /\ qi' = IF ok THEN qi + 1 ELSE rq.WarmupIterations
    /\ qPc' = "warmup"
    /\ UNCHANGED <<rq, qNow, scen, durations, errors, queryResults, qCalls, qOk,
                   qFail, queryOthers>>

WarmupReturn ==
    /\ qPc = "warmupCall"
    /\ qReturned' = [qReturned EXCEPT ![CurScenario.name] = @ + 1]
    /\ \E ok \in BOOLEAN : warmupFailed' = (warmupFailed \/ ~ok)
    /\ qi' = qi + 1
    /\ qPc' = "warmup"
    /\ UNCHANGED <<rq, qNow, scen, durations, errors, queryResults, qCalls, qOk,
                   qFail, queryOthers>>

\* the warmup loop ends; measureQuery is entered (durations nil, errors 0, i 0)
WarmupDone ==
    /\ qPc = "warmup"
    /\ qi >= rq.WarmupIterations
    /\ qPc' = "measure"
    /\ qi' = 0
    /\ durations' = <<>>
    /\ errors' = 0
    /\ UNCHANGED <<rq, qNow, scen, queryResults, qCalls, qReturned, qOk, qFail,
                   warmupFailed, queryOthers>>

\* ---------------------------------------------------- Runner.measureQuery
\* for i := 0; i < r.QueryIterations; i++ { queryStart := time.Now();
\* repo.GetEventStats(...) is called
MeasureCall ==
    /\ qPc = "measure"
    /\ qi < rq.QueryIterations
    /\ qPc' = "measureCall"
    /\ qCalls' = [qCalls EXCEPT ![CurScenario.name] = Append(@, "measured")]
    /\ UNCHANGED <<rq, qNow, scen, qi, durations, errors, queryResults, qReturned,
                   qOk, qFail, warmupFailed, queryOthers>>

\* GetEventStats returns; d := time.Since(queryStart);
\* err != nil: errors++; continue.  Otherwise durations = append(durations, d)
MeasureReturnCountsFailed ==
    /\ qPc = "measureCall"
    /\ qReturned' = [qReturned EXCEPT ![CurScenario.name] = @ + 1]
    /\ \E ok \in BOOLEAN, d \in Latencies :
         /\ durations' = Append(durations, Duration(d))
         /\ IF ok
            THEN /\ qOk' = [qOk EXCEPT ![CurScenario.name] = @ + 1]
                 /\ UNCHANGED <<errors, qFail>>
            ELSE /\ errors' = errors + 1
                 /\ qFail' = [qFail EXCEPT ![CurScenario.name] = @ + 1]
                 /\ UNCHANGED qOk
    /\ qi' = qi + 1
    /\ qPc' = "measure"
    /\ UNCHANGED <<rq, qNow, scen, queryResults, qCalls, warmupFailed, queryOthers>>

MeasureReturn ==
    /\ qPc = "measureCall"
    /\ qReturned' = [qReturned EXCEPT ![CurScenario.name] = @ + 1]
    /\ \E ok \in BOOLEAN, d \in Latencies :
         IF ok
         THEN /\ durations' = Append(durations, Duration(d))
              /\ qOk' = [qOk EXCEPT ![CurScenario.name] = @ + 1]
              /\ UNCHANGED <<errors, qFail>>
         ELSE /\ errors' = errors + 1
              /\ qFail' = [qFail EXCEPT ![CurScenario.name] = @ + 1]
              /\ UNCHANGED <<durations, qOk>>
    /\ qi' = qi + 1
    /\ qPc' = "measure"
    /\ UNCHANGED <<rq, qNow, scen, queryResults, qCalls, warmupFailed, queryOthers>>

\* measureQuery's loop ends and it returns; runQuery builds the QueryResult;
\* RunQueries stores it under s.name and goes on to the next scenario, or
\* returns results after the last one
RunQueryReturnSkipsFailed ==
    /\ qPc = "measure"
    /\ qi >= rq.QueryIterations
    /\ queryResults' =
         IF Len(durations) = 0 THEN queryResults
         ELSE MapPut(queryResults, CurScenario.name,
                     QueryResult(CurScenario.name, durations, errors,
                                 qNow - CurScenario.hours, qNow))
    /\ durations' = <<>>
    /\ errors' = 0
    /\ qi' = 0
    /\ IF scen < Len(Scenarios)
       THEN scen' = scen + 1 /\ qPc' = "warmup"
       ELSE qPc' = "done" /\ UNCHANGED scen
    /\ UNCHANGED <<rq, qNow, qCalls, qReturned, qOk, qFail, warmupFailed,
                   queryOthers>>

RunQueryReturn ==
    /\ qPc = "measure"
    /\ qi >= rq.QueryIterations
    /\ queryResults' =
         MapPut(queryResults, CurScenario.name,
                QueryResult(CurScenario.name, durations, errors,
                            qNow - CurScenario.hours, qNow))
    /\ durations' = <<>>
    /\ errors' = 0
    /\ qi' = 0
    /\ IF scen < Len(Scenarios)
       THEN scen' = scen + 1 /\ qPc' = "warmup"
       ELSE qPc' = "done" /\ UNCHANGED scen
    /\ UNCHANGED <<rq, qNow, qCalls, qReturned, qOk, qFail, warmupFailed,
                   queryOthers>>

NextQueries ==
    \/ RunQueriesStart
    \/ WarmupCall
    \/ WarmupReturn
    \/ WarmupDone
    \/ MeasureCall
    \/ MeasureReturn
    \/ RunQueryReturn

SpecQueries == InitQueries /\ [][NextQueries]_vars

\* ================================================ one call of Percentile
\* the caller holds a slice of durations and calls Percentile(samples, p)
\* the values a sample takes: 1 ns .. MaxSampleValue ns, and the largest
\* time.Duration
SampleValues == {Duration(v) : v \in 1..MaxSampleValue} \cup {MaxInt64}

\* the samples of TestPercentile: 1 ms .. 100 ms
TestSamples == [i \in 1..TestLen |-> Duration(i)]

InitStats ==
    /\ InsInitWith({[EventCount |-> 0, BatchSize |-> 1, Workers |-> 1,
                     PreloadCount |-> 0]}, "off")
    /\ op = "RunInsert"
    /\ ctxDone = FALSE
    /\ OrchIdleBut(<<>>, NoFlags, "off")
    /\ DirectIdleBut("off")
    /\ QueryIdleBut({[WarmupIterations |-> 0, QueryIterations |-> 0]}, "off")
    /\ StatsIdleBut(SeqsUpTo(SampleValues, MaxSamples) \cup {TestSamples},
                    Percents, "call")
    /\ ApiIdleBut("off")

statsOthers == <<insVars, ctxDone, orchVars, directVars, queryVars, apiVars>>

\* if len(durations) == 0 { return 0 }
PercentileEmpty ==
    /\ pctPc = "call"
    /\ Len(samples) = 0
    /\ pctResult' = Duration(0)
    /\ pctPc' = "done"
    /\ UNCHANGED <<samples, pctP, sorted, samplesBefore, statResult, statsOthers>>

\* sorted := make([]time.Duration, len(durations)); copy(sorted, durations)
PercentileCopy ==
    /\ pctPc = "call"
    /\ Len(samples) # 0
    /\ sorted' = [i \in 1..Len(samples) |-> samples[i]]
    /\ pctPc' = "sort"
    /\ UNCHANGED <<samples, pctP, pctResult, samplesBefore, statResult, statsOthers>>

\* sort.Slice(sorted, ...); index := ...; return sorted[index]
PercentileSortInPlace ==
    /\ pctPc = "sort"
    /\ samples' = SortSlice(samples)
    /\ sorted' = sorted
    /\ pctResult' = samples'[PercentileIndex(Len(samples'), pctP) + 1]
    /\ pctPc' = "done"
    /\ UNCHANGED <<pctP, samplesBefore, statResult, statsOthers>>

PercentileSort ==
    /\ pctPc = "sort"
    /\ sorted' = SortSlice(sorted)
    /\ pctResult' = sorted'[PercentileIndex(Len(sorted'), pctP) + 1]
    /\ pctPc' = "done"
    /\ UNCHANGED <<samples, pctP, samplesBefore, statResult, statsOthers>>

pctVars == <<samples, pctP, pctPc, sorted, pctResult, samplesBefore>>

\* a call of AvgDuration(samples) returns
AvgDurationCall ==
    /\ pctPc # "off"
    /\ "AvgDuration" \notin DOMAIN statResult
    /\ statResult' = MapPut(statResult, "AvgDuration", AvgDuration(samples))
    /\ UNCHANGED <<pctVars, statsOthers>>

\* a call of MinDuration(samples) returns
MinDurationCall ==
    /\ pctPc # "off"
    /\ "MinDuration" \notin DOMAIN statResult
    /\ statResult' = MapPut(statResult, "MinDuration", MinDuration(samples))
    /\ UNCHANGED <<pctVars, statsOthers>>

\* a call of MaxDuration(samples) returns
MaxDurationCall ==
    /\ pctPc # "off"
    /\ "MaxDuration" \notin DOMAIN statResult
    /\ statResult' = MapPut(statResult, "MaxDuration", MaxDuration(samples))
    /\ UNCHANGED <<pctVars, statsOthers>>

NextStats ==
    \/ PercentileEmpty
    \/ PercentileCopy
    \/ PercentileSort
    \/ AvgDurationCall
    \/ MinDurationCall
    \/ MaxDurationCall

SpecStats == InitStats /\ [][NextStats]_vars

\* ========================================================== properties
\* ---- insert pipeline (checked under SpecInsert)

ActiveWorkers == { w \in Workers : w <= r.Workers }

RECURSIVE SumOver(_, _)
SumOver(S, f) ==
    IF S = {} THEN 0
    ELSE LET x == CHOOSE y \in S : TRUE IN f[x] + SumOver(S \ {x}, f)

\* C1: the batches received from one Generate() call on a fresh generator all
\* have a size in 1..batchSize; once the channel is closed and drained their
\* sizes sum to totalCount and their number is ceil(totalCount/batchSize)
\* (so totalCount = 0 gives zero batches and a closed channel).
C1_GenerateBatches ==
    /\ \A i \in 1..Len(received) : received[i] >= 1 /\ received[i] <= g.batchSize
    /\ pumpPc \in {"close", "done"} =>
          /\ chClosed /\ ch = <<>>
          /\ g.totalEvents = InsertCount /\ g.batchSize = r.BatchSize
          /\ SeqSum(received) = g.totalEvents
          /\ Len(received) = CeilDiv(g.totalEvents, g.batchSize)

C1_Witness ==
    /\ pumpPc = "done"
    /\ Len(received) >= 2
    /\ received[Len(received)] < g.batchSize

\* C2: no batch emitted by the generator is passed to InsertBatch more than
\* once, and no two workers hold the same batch.
C2_AtMostOnce ==
    /\ \A id \in DOMAIN calls : calls[id] <= 1
    /\ \A w1, w2 \in ActiveWorkers :
          (w1 # w2 /\ wBatch[w1] # NoBatch) => wBatch[w1].id # wBatch[w2].id

C2_Witness ==
    /\ r.Workers >= 2
    /\ wPc[1] = "call" /\ wPc[2] = "call"
    /\ op = "RunInsert"

\* C3: the Throughput RunInsert reports is (sum of the sizes of the batches
\* whose InsertBatch succeeded) / Duration, not the requested total; when a
\* non-empty batch failed, Throughput x Duration < TotalEvents; TotalEvents is
\* the requested EventCount.
C3_ThroughputFromInserted ==
    result.kind = "insert" =>
        /\ result.Throughput.num = okSize
        /\ result.Throughput.den = result.Duration
        /\ result.TotalEvents = r.EventCount
        /\ failedSize > 0 => result.Throughput.num < result.TotalEvents

C3_Witness ==
    /\ result.kind = "insert"
    /\ failedCalls >= 1
    /\ okSize >= 1

\* C4: each failed InsertBatch call adds exactly 1 to the shared error count
\* and nothing to the inserted count, the batch is dropped without retry and
\* the worker goes back to pulling batches; no increment is lost, so the final
\* ErrorCount is the number of failed InsertBatch calls.
C4_ErrorStep ==
    \A w \in Workers :
        (wPc[w] = "err" /\ wPc'[w] # "err") =>
            /\ totalErrors' = totalErrors + 1
            /\ totalInserted' = totalInserted
            /\ wPc'[w] = "recv"
            /\ calls' = calls
            /\ batches' = batches

C4_ErrorCounting ==
    /\ totalErrors + Cardinality({ w \in ActiveWorkers : wPc[w] = "err" }) = failedCalls
    /\ totalInserted
         + SumOver({ w \in ActiveWorkers : wPc[w] \in {"load", "add"} },
                   [w \in Workers |-> wBatch[w].size]) = okSize
    /\ result.kind = "insert" => result.ErrorCount = failedCalls

C4_FailedBatchCounted == [](C4_ErrorCounting) /\ [][C4_ErrorStep]_vars

C4_Witness ==
    /\ result.kind = "insert"
    /\ r.Workers >= 2
    /\ result.ErrorCount >= 2
    /\ okSize >= 1

\* C5: after the context is cancelled no InsertBatch call is started (the
\* claim as stated; the code never looks at ctx in consumeBatches, pumpBatches
\* or Generate, so this is violated).
C5_NoDispatchAfterCancel == ~lateDispatch

\* C15: Preload returns an error exactly when at least one InsertBatch call
\* failed and no batch was inserted; one inserted batch makes it return nil
\* however many others failed; with PreloadCount <= 0 it returns nil without
\* generating a batch or calling InsertBatch.
C15_PreloadError ==
    result.kind = "preload" =>
        /\ result.err <=> (failedCalls >= 1 /\ okSize = 0)
        /\ okSize = totalInserted
        /\ r.PreloadCount <= 0 =>
              /\ ~result.err
              /\ genSeq = 0
              /\ \A id \in DOMAIN calls : calls[id] = 0

C15_Witness ==
    /\ result.kind = "preload"
    /\ ~result.err
    /\ failedCalls >= 2
    /\ okSize >= 1

\* ---- query benchmark (checked under SpecQueries)

\* C16: the mapping RunQueries returns has exactly the keys 1_hour, 1_day,
\* 1_week, 1_month, each mapped to a result whose QueryName is its key,
\* whatever the target's calls return (all of them failing included).
C16_FourKeys ==
    /\ DOMAIN queryResults \subseteq ScenarioNames
    /\ \A k \in DOMAIN queryResults : queryResults[k].QueryName = k
    /\ qPc = "done" =>
          DOMAIN queryResults = {"1_hour", "1_day", "1_week", "1_month"}

C16_Witness ==
    /\ qPc = "done"
    /\ rq.QueryIterations >= 2
    /\ warmupFailed
    /\ \A k \in ScenarioNames : qOk[k] = 0 /\ qFail[k] = rq.QueryIterations

\* C17: for every scenario GetEventStats is called WarmupIterations +
\* QueryIterations times whatever the calls return; a call is started only
\* when every earlier call has returned; the calls are first the warmup calls,
\* then the measured ones, so every warmup call has returned before the first
\* measured call starts.
WarmupThenMeasured(cs) ==
    \A i, j \in 1..Len(cs) : (cs[i] = "measured" /\ cs[j] = "warmup") => j < i

CountOf(cs, kind) == Cardinality({ i \in 1..Len(cs) : cs[i] = kind })

C17_State ==
    \A n \in ScenarioNames :
        /\ WarmupThenMeasured(qCalls[n])
        /\ CountOf(qCalls[n], "warmup") <= rq.WarmupIterations
        /\ CountOf(qCalls[n], "measured") <= rq.QueryIterations
        /\ CountOf(qCalls[n], "measured") >= 1 =>
              CountOf(qCalls[n], "warmup") = rq.WarmupIterations
        /\ Len(qCalls[n]) - qReturned[n] =
              (IF qPc \in {"warmupCall", "measureCall"} /\ n = CurScenario.name
               THEN 1 ELSE 0)
        /\ n \in DOMAIN queryResults =>
              /\ Len(qCalls[n]) = rq.WarmupIterations + rq.QueryIterations
              /\ qReturned[n] = rq.WarmupIterations + rq.QueryIterations

C17_Step ==
    \A n \in ScenarioNames :
        qCalls'[n] # qCalls[n] =>
            /\ Len(qCalls[n]) = qReturned[n]
            /\ Len(qCalls'[n]) = Len(qCalls[n]) + 1
            /\ n = CurScenario.name

C17_CallCount == [](C17_State) /\ [][C17_Step]_vars

C17_Witness ==
    /\ qPc = "done"
    /\ rq.WarmupIterations >= 1 /\ rq.QueryIterations >= 2
    /\ warmupFailed
    /\ qFail["1_hour"] >= 1 /\ qOk["1_hour"] >= 1
    /\ qFail["1_month"] = rq.QueryIterations

\* C18: in every QueryResult Iterations is the number of measured calls that
\* returned nil and ErrorCount the number that returned an error, so they sum
\* to QueryIterations; a failed measured call adds no sample and the loop goes
\* on; warmup calls change neither the samples nor the error count.
C18_State ==
    /\ \A n \in DOMAIN queryResults :
          /\ queryResults[n].Iterations = qOk[n]
          /\ queryResults[n].ErrorCount = qFail[n]
          /\ queryResults[n].Iterations + queryResults[n].ErrorCount
                = rq.QueryIterations
    /\ qPc \in {"measure", "measureCall"} =>
          /\ Len(durations) = qOk[CurScenario.name]
          /\ errors = qFail[CurScenario.name]
          /\ Len(durations) + errors = qi
    /\ qPc \in {"warmup", "warmupCall"} =>
          /\ durations = <<>> /\ errors = 0
          /\ qOk[CurScenario.name] = 0 /\ qFail[CurScenario.name] = 0

C18_Step ==
    /\ qPc = "warmupCall" => UNCHANGED <<durations, errors, qOk, qFail>>
    /\ (qPc = "measureCall" /\ errors' # errors) =>
          /\ durations' = durations
          /\ errors' = errors + 1
          /\ qPc' = "measure" /\ qi' = qi + 1
    /\ (qPc = "measureCall" /\ durations' # durations) =>
          /\ Len(durations') = Len(durations) + 1
          /\ errors' = errors

C18_IterationsAndErrors == [](C18_State) /\ [][C18_Step]_vars

C18_Witness ==
    /\ qPc = "done"
    /\ rq.WarmupIterations >= 1 /\ rq.QueryIterations >= 2
    /\ warmupFailed
    /\ queryResults["1_day"].Iterations = 1
    /\ queryResults["1_day"].ErrorCount = rq.QueryIterations - 1
    /\ queryResults["1_week"].ErrorCount = 0

\* C19: a scenario none of whose measured calls succeeded yields a
\* QueryResult with only QueryName and ErrorCount populated: Iterations and
\* the six latency fields are 0 and DateRange is empty.
C19_NoSuccess ==
    \A n \in DOMAIN queryResults :
        qOk[n] = 0 =>
            queryResults[n] =
                [QueryName |-> n, Iterations |-> 0,
                 AvgDuration |-> Duration(0), MinDuration |-> Duration(0),
                 MaxDuration |-> Duration(0), P50Duration |-> Duration(0),
                 P95Duration |-> Duration(0), P99Duration |-> Duration(0),
                 ErrorCount |-> qFail[n], DateRange |-> <<>>]

C19_Witness ==
    /\ qPc = "done"
    /\ rq.QueryIterations >= 2
    /\ queryResults["1_day"].Iterations = 0
    /\ queryResults["1_day"].ErrorCount = rq.QueryIterations
    /\ queryResults["1_day"].DateRange = <<>>
    /\ queryResults["1_hour"].Iterations >= 1
    /\ queryResults["1_hour"].DateRange # <<>>

\* ---- statistics (checked under SpecStats)

\* C20: a call Percentile(samples, p) leaves the caller's slice as it was:
\* no step of the call changes samples, so after the call every position
\* holds the value it held before, for every input and every p; the value
\* returned is the one computed from the sorted copy.
C20_State ==
    /\ samples = samplesBefore
    /\ pctPc = "done" => pctResult = Percentile(samplesBefore, pctP)

C20_Step == samples' = samples

C20_InputUnchanged == [](C20_State) /\ [][C20_Step]_vars

C20_Witness ==
    /\ pctPc = "done"
    /\ samples = <<Duration(3), Duration(1), Duration(2)>>
    /\ sorted = <<Duration(1), Duration(2), Duration(3)>>
    /\ pctP = 50
    /\ pctResult = Duration(2)

\* C21: a Percentile call on a non-empty slice returns the element at index
\* min(floor(len*p), len-1) of the ascending sort of the samples, for every p
\* in [0,1]; for the samples 1..100 ms that is 51 ms at p = 0.50, 96 ms at
\* p = 0.95 and 100 ms at p = 0.99
NearestRankIndex(n, p) ==
    LET index == (n * p) \div 100
    IN IF index >= n THEN n - 1 ELSE index

C21_NearestRank ==
    (pctPc = "done" /\ Len(samplesBefore) > 0) =>
        /\ pctResult = SortSlice(samplesBefore)[
                NearestRankIndex(Len(samplesBefore), pctP) + 1]
        /\ samplesBefore = TestSamples =>
              /\ pctP = 50 => pctResult = Duration(51)
              /\ pctP = 95 => pctResult = Duration(96)
              /\ pctP = 99 => pctResult = Duration(100)

\* C22: AvgDuration, MinDuration, MaxDuration and Percentile (for any p) return
\* the single element of a one-element slice and the zero duration for an
\* empty slice
StatFunctions == {"AvgDuration", "MinDuration", "MaxDuration"}

C22_SingleOrEmpty ==
    /\ Len(samplesBefore) = 1 =>
          /\ pctPc = "done" => pctResult = samplesBefore[1]
          /\ \A f \in DOMAIN statResult : statResult[f] = samplesBefore[1]
    /\ Len(samplesBefore) = 0 =>
          /\ pctPc = "done" => pctResult = Duration(0)
          /\ \A f \in DOMAIN statResult : statResult[f] = Duration(0)

C22_Witness ==
    /\ samplesBefore = <<Duration(2)>>
    /\ pctPc = "done" /\ pctP = 95 /\ pctResult = Duration(2)
    /\ DOMAIN statResult = StatFunctions
    /\ statResult["AvgDuration"] = Duration(2)

\* C30: for every non-empty slice of non-negative samples the statistics are
\* ordered: Min <= P50 <= P95 <= P99 <= Max and Min <= Avg <= Max; Percentile
\* is monotone non-decreasing in p and returns an element of the input
Int64LessEq(a, b) == ~Int64Less(b, a)

C30_PercentilesOrdered ==
    /\ Int64LessEq(MinDuration(samples), Percentile(samples, 50))
    /\ Int64LessEq(Percentile(samples, 50), Percentile(samples, 95))
    /\ Int64LessEq(Percentile(samples, 95), Percentile(samples, 99))
    /\ Int64LessEq(Percentile(samples, 99), MaxDuration(samples))
    /\ pctPc = "done" =>
          /\ \E i \in 1..Len(samples) : pctResult = samples[i]
          /\ \A q \in Percents :
                /\ q <= pctP => Int64LessEq(Percentile(samples, q), pctResult)
                /\ q >= pctP => Int64LessEq(pctResult, Percentile(samples, q))

C30_Ordered ==
    (Len(samples) > 0 /\ DOMAIN statResult = StatFunctions) =>
        /\ C30_PercentilesOrdered
        /\ Int64LessEq(statResult["MinDuration"], statResult["AvgDuration"])
        /\ Int64LessEq(statResult["AvgDuration"], statResult["MaxDuration"])

\* ---- a generator used twice (checked under SpecGenerate)
\* C23: once the channel returned by Generate() has been drained, a further
\* Generate() on the same instance emits no batch and closes its channel: the
\* cursor g.current is never reset
C23_NotRestartable ==
    genCalls >= 2 =>
        /\ g.current = g.totalEvents
        /\ ch = <<>>
        /\ genBatch = NoBatch
        /\ genPc \in {"check", "done"}
        /\ genPc = "done" => chClosed
        /\ \A k \in 2..genCalls : emitted[k] = 0

C23_Witness ==
    /\ genCalls = 2
    /\ rangePc = "call"
    /\ genPc = "done" /\ chClosed
    /\ g.totalEvents = MaxEvents /\ g.batchSize = 1
    /\ emitted[1] = MaxEvents
    /\ emitted[2] = 0

\* ---- order of a managed run (checked under SpecManaged)
\* C24: in a managed run of one backend whose steps all succeed the operations
\* occur in the order Start, WaitReady, InitSchema, Preload (only if a preload
\* count is configured), RunInsert, RunQueries, Stop, each at most once; and
\* for every service whose Start succeeded, Stop is issued exactly once on
\* every path before the backend's Results entry is recorded
OrderedOps == <<"Start", "WaitReady", "InitSchema", "Preload", "RunInsert",
                "RunQueries", "Stop">>

OrderedOpNames == { OrderedOps[i] : i \in 1..Len(OrderedOps) }

\* the operations of OrderedOps the flags ask for, in that order
ExpectedOps(fl) ==
    SelectSeq(OrderedOps,
              LAMBDA o : /\ o = "Preload" => fl.preload
                         /\ o = "RunInsert" => ~fl.skipInsert
                         /\ o = "RunQueries" => ~fl.skipQuery)

C24_State ==
    /\ \A o \in OrderedOpNames : CountOf(opLog, o) <= 1
    /\ \A i, j \in 1..Len(opLog) :
          (i < j /\ opLog[i] \in OrderedOpNames /\ opLog[j] \in OrderedOpNames) =>
              \E a, b \in 1..Len(OrderedOps) :
                  a < b /\ OrderedOps[a] = opLog[i] /\ OrderedOps[b] = opLog[j]
    /\ CountOf(opLog, "Preload") = 1 => flags.preload
    /\ \A n \in DOMAIN allResults : n \in startedOk => n \in stopIssued

C24_Step ==
    \A n \in (DOMAIN allResults') \ (DOMAIN allResults) :
        /\ n \in startedOk => (n = CurDb /\ CountOf(opLog, "Stop") = 1)
        /\ allResults'[n].Error = "none" =>
              SelectSeq(opLog, LAMBDA o : o \in OrderedOpNames) = ExpectedOps(flags)

C24_OrderAndStop == [](C24_State) /\ [][C24_Step]_vars

C24_Witness ==
    /\ Len(databases) = 4 /\ idx = 3 /\ mPc = "loop"
    /\ flags.preload /\ ~flags.skipInsert /\ ~flags.skipQuery
    /\ "postgres" \in DOMAIN allResults /\ allResults["postgres"].Error = "timeout"
    /\ "mongodb" \in DOMAIN allResults /\ allResults["mongodb"].Error = "none"
    /\ {"postgres", "mongodb"} \subseteq stopIssued
    /\ opLog = <<"Start", "WaitReady", "Connect", "InitSchema", "Preload",
                 "RunInsert", "RunQueries", "GetStorageStats", "Close", "Stop">>

\* ---- termination of the insert pipeline (checked under SpecInsertFair)
\* C25: with at least one worker and a target whose InsertBatch always
\* returns, RunInsert eventually returns; the batch queue is closed once, only
\* after every generated batch has been forwarded into it (nothing is sent on
\* the closed queue), and a worker exits only when the queue is closed and
\* empty
C25_Returns == <>(riPc = "done")

C25_ClosedState ==
    batchesClosed =>
        /\ genPc = "done" /\ chClosed /\ ch = <<>>
        /\ pumpPc = "done" /\ pumpBatch = NoBatch
        /\ g.current = g.totalEvents
        /\ Len(received) = genSeq

C25_Step ==
    /\ batchesClosed => batchesClosed'
    /\ batchesClosed => (Len(batches') <= Len(batches))
    /\ (batchesClosed' /\ ~batchesClosed) => (pumpPc = "close" /\ pumpPc' = "done")
    /\ \A w \in Workers :
          (wPc[w] # "done" /\ wPc'[w] = "done") => (batchesClosed /\ batches = <<>>)

C25_Terminates == C25_Returns /\ [](C25_ClosedState) /\ [][C25_Step]_vars

C25_Witness ==
    /\ riPc = "done" /\ op = "RunInsert"
    /\ r.Workers = 2 /\ r.EventCount = MaxEvents /\ r.BatchSize = 1
    /\ batchesClosed /\ batches = <<>>
    /\ \A w \in Workers : w <= r.Workers => wPc[w] = "done"
    /\ Len(received) = MaxEvents
    /\ totalErrors >= 1

\* ---- conservation of batches (checked under SpecInsert)
\* C26: when RunInsert returns without cancellation, every generated batch has
\* been passed to InsertBatch exactly once: successful batches + ErrorCount =
\* ceil(EventCount/BatchSize) and inserted count + sizes of the failed batches
\* = EventCount, whatever the interleaving and whichever calls failed
C26_Conservation ==
    (result.kind = "insert" /\ ~ctxDone) =>
        LET batchCount == CeilDiv(r.EventCount, r.BatchSize)
            attempted == SumOver(DOMAIN calls, calls)
            succeeded == attempted - failedCalls
        IN /\ genSeq = batchCount
           /\ \A id \in DOMAIN calls : calls[id] = IF id <= batchCount THEN 1 ELSE 0
           /\ succeeded + result.ErrorCount = batchCount
           /\ totalInserted + failedSize = r.EventCount
           /\ result.Throughput.num = totalInserted

C26_Witness ==
    /\ result.kind = "insert" /\ ~ctxDone
    /\ r.Workers = 2 /\ r.EventCount = MaxEvents /\ r.BatchSize = 2
    /\ result.ErrorCount = 1
    /\ totalInserted >= 1 /\ failedSize = 2

\* ---- back pressure (checked under SpecPipeline)
\* the batches the producer has built and no worker has received yet
Outstanding == genSeq - SumOver(DOMAIN calls, calls)

\* C27: during RunInsert the number of batches generated but not yet taken by
\* a worker never exceeds GenChanCap + 2 * Workers + 2 (the two channels, the
\* batch the producer is sending and the batch the pump holds), whatever the
\* event count; neither channel ever holds more than its capacity, and the
\* producer cannot take a step while its send finds the channel full
C27_BackPressure ==
    /\ Outstanding <= GenChanCap + 2 * r.Workers + 2
    /\ Len(ch) <= GenChanCap
    /\ Len(batches) <= 2 * r.Workers
    /\ (genPc = "send" /\ Len(ch) = GenChanCap) => ~ENABLED GeneratorStep

C27_Witness ==
    /\ genPc = "send" /\ Len(ch) = GenChanCap
    /\ pumpPc = "send" /\ Len(batches) = 2 * r.Workers
    /\ Outstanding = GenChanCap + 2 * r.Workers + 2
    /\ genSeq < r.EventCount

\* ---- progress lines (checked under SpecProgress)
\* C28: a progress line is emitted by exactly those successful inserts whose
\* own add moves totalInserted across a multiple of the logging interval; the
\* step that emits it adds the batch size to totalInserted, as every add does,
\* and leaves totalErrors alone
C28_Step ==
    /\ totalInserted' # totalInserted =>
          ((logged' # logged) <=>
              (totalInserted \div LogInterval # totalInserted' \div LogInterval))
    /\ logged' # logged =>
          /\ logged' = logged \cup {totalInserted'}
          /\ totalErrors' = totalErrors
          /\ \E w \in Workers :
                /\ wPc[w] = "add" /\ wPc'[w] = "recv"
                /\ totalInserted' = totalInserted + wBatch[w].size

C28_ProgressExactlyOnce == [][C28_Step]_vars

\* ---- keys of the results mapping (checked under SpecRun)
\* C29: every entry of the mapping returned by a direct run (results) or a
\* managed run (allResults) has its Database field equal to the key it is
\* stored under, entries with Error set included
C29_DatabaseIsKey ==
    /\ dPc = "done" => \A db \in DOMAIN results : results[db].Database = db
    /\ mPc = "done" => \A db \in DOMAIN allResults : allResults[db].Database = db

\* ---- managed run (checked under SpecManaged)

ActiveStates == {"Starting", "WaitingReady", "Ready"}

\* C6: in a managed run at most one service is in Starting, WaitingReady or
\* Ready, and StartService is only called when every service is Stopped or
\* Failed and every service started before has had its StopService return.
C6_OneActive ==
    Cardinality({ n \in ServiceNames : svcState[n] \in ActiveStates }) <= 1

C6_StartStep ==
    startIssued' # startIssued =>
        \A n \in ServiceNames :
            /\ svcState[n] \in {"Stopped", "Failed"}
            /\ n \in startedOk => n \in stopReturned

C6_Sequential == [](C6_OneActive) /\ [][C6_StartStep]_vars

C6_Witness ==
    /\ Len(databases) = 4 /\ idx = 3
    /\ svcState["clickhouse"] = "Ready"
    /\ "postgres" \in DOMAIN allResults /\ allResults["postgres"].Error = "none"
    /\ "mongodb" \in DOMAIN allResults /\ allResults["mongodb"].Error = "timeout"

\* C7: every service whose Start or readiness wait failed has had StopService
\* called before the driver stored its result and moved on (the claim as
\* stated; the code returns straight away when StartService fails).
C7_StopAfterFailure ==
    \A n \in DOMAIN allResults :
        allResults[n].Error \in {"start", "timeout", "cancelled"} => n \in stopIssued

\* C11: when StartService fails for a service, its run ends there with the
\* service Failed: WaitReady (hence the readiness probe) and runBenchmark are
\* entered only for a service whose StartService returned nil, a service is
\* started at most once, and the failed service's Results entry is
\* {Database: name, Error: the start error}.
C11_State ==
    /\ \A n \in startIssued \ startedOk :
          \/ mPc = "start" /\ idx <= Len(databases) /\ CurDb = n
          \/ /\ n \in DOMAIN allResults
             /\ allResults[n] = Results(n, "start")
             /\ svcState[n] = "Failed"
    /\ (wrPc # "idle" \/ bPc # "idle") =>
          (idx <= Len(databases) /\ CurDb \in startedOk)

C11_Step ==
    /\ startIssued' # startIssued => CurDb \notin startIssued
    /\ (mPc = "start" /\ mPc' # "start" /\ CurDb \notin startedOk') =>
          /\ mPc' = "loop" /\ idx' = idx + 1
          /\ opLog' = <<"Start">>
          /\ wrPc' = "idle" /\ bPc' = "idle"
          /\ svcState'[CurDb] = "Failed"
          /\ allResults'[CurDb].Error = "start"

C11_StartFailureAborts == [](C11_State) /\ [][C11_Step]_vars

C11_Witness ==
    /\ Len(databases) = 4 /\ idx = 3 /\ mPc = "loop"
    /\ allResults["postgres"].Error = "start"
    /\ allResults["mongodb"].Error = "none"
    /\ ~ctxDone

\* C12: StopService runs the removal after the graceful stop whatever the
\* graceful stop returned, and returns what the removal returned: a failed
\* graceful stop followed by a successful removal gives nil.
C12_State ==
    /\ mPc = "stopped" =>
          /\ rmReturned \in {"nil", "error"}
          /\ stopResult = rmReturned
    /\ stopPc = "rm" => mPc = "stop" /\ rmReturned = "none"

C12_Step ==
    (stopPc = "stop" /\ stopPc' # "stop") => (stopPc' = "rm" /\ mPc' = "stop")

C12_StopReturnsRemoval == [](C12_State) /\ [][C12_Step]_vars

C12_Witness ==
    /\ mPc = "stopped"
    /\ stopErr
    /\ rmReturned = "nil" /\ stopResult = "nil"

\* ---- either mode (checked under SpecRun)

Executed(log) == \E i \in 1..Len(log) : log[i] = "GetStorageStats"

\* C13: a backend's fatal error (unknown service, start, readiness, connect,
\* schema, preload) does not stop the run. Direct mode: runAllBenchmarks
\* returns only after every requested backend's goroutine has run and stored
\* its result, one entry per requested backend, equal to what runBenchmark
\* returned, with Error set exactly when executeBenchmark was not reached.
\* Managed mode: every store adds the entry of the current backend only, with
\* Error set exactly when executeBenchmark was not reached, and the run ends
\* with one entry per requested backend, each known service having been
\* started.
C13_Direct ==
    /\ dPc = "done" =>
          /\ DOMAIN results = Requested
          /\ \A db \in Requested :
                /\ gPc[db] = "done"
                /\ Len(gLog[db]) >= 1 /\ gLog[db][1] = "Connect"
                /\ results[db] = gRes[db]
                /\ (results[db].Error = "none") <=> Executed(gLog[db])
    /\ DOMAIN results \subseteq Requested

C13_Managed ==
    /\ mPc = "done" =>
          /\ DOMAIN allResults = Requested
          /\ \A db \in Requested : ServiceByName(db) => db \in startIssued
          /\ \A db \in Requested : ~ServiceByName(db) => allResults[db].Error = "unknown"
    /\ DOMAIN allResults \subseteq Requested

C13_ManagedStep ==
    allResults' # allResults =>
        /\ CurDb \notin DOMAIN allResults
        /\ DOMAIN allResults' = DOMAIN allResults \cup {CurDb}
        /\ \A db \in DOMAIN allResults : allResults'[db] = allResults[db]
        /\ (allResults'[CurDb].Error = "none") <=>
              (ServiceByName(CurDb) /\ Executed(opLog))
        /\ mPc' = "loop" /\ idx' = idx + 1

C13_FatalErrorIsLocal ==
    [](C13_Direct /\ C13_Managed) /\ [][C13_ManagedStep]_vars

C13_Witness ==
    /\ dPc = "done"
    /\ Len(databases) = 4
    /\ results["postgres"].Error = "connect"
    /\ results["mongodb"].Error = "none"
    /\ results["clickhouse"].Error = "preload"
    /\ results["cassandra"].Error = "none" /\ results["cassandra"].Storage

\* C14: a failure of connect, InitSchema or Preload ends that backend's
\* benchmark: RunInsert, RunQueries and GetStorageStats are not called for it
\* afterwards, and the Results returned and stored for it has Error set and
\* Insert, Queries and Storage absent (both modes call the same runBenchmark).
FatalKinds == {"connect", "schema", "preload"}

BenchmarkOps == {"RunInsert", "RunQueries", "GetStorageStats"}

Has(log, ops) == \E i \in 1..Len(log) : log[i] \in ops

ErrorOnly(res) ==
    /\ res.Error \in FatalKinds
    /\ ~res.Insert /\ ~res.Queries /\ ~res.Storage

C14_Direct ==
    \A db \in DbNames :
        Has(gLog[db], {"error"}) =>
            /\ ~Has(gLog[db], BenchmarkOps)
            /\ gPc[db] \in {"lock", "store", "done"}
            /\ ErrorOnly(gRes[db])
            /\ gPc[db] = "done" => (db \in DOMAIN results /\ results[db] = gRes[db])

C14_Managed ==
    /\ pending.Error \in FatalKinds =>
          /\ ErrorOnly(pending)
          /\ ~Has(opLog, BenchmarkOps)
          /\ bPc \in {"close", "returned", "idle"}
    /\ \A n \in DOMAIN allResults :
          allResults[n].Error \in FatalKinds => ErrorOnly(allResults[n])

C14_ManagedStep ==
    pending.Error \in FatalKinds =>
        \/ pending'.Error = pending.Error
        \/ /\ mPc = "stopped"
           /\ allResults'[CurDb].Error = pending.Error

C14_FatalForBackend ==
    [](C14_Direct /\ C14_Managed) /\ [][C14_ManagedStep]_vars

C14_Witness ==
    /\ mPc = "loop" /\ idx = 2
    /\ flags.preload /\ ~flags.skipInsert /\ ~flags.skipQuery
    /\ "postgres" \in DOMAIN allResults
    /\ allResults["postgres"] = Results("postgres", "preload")
    /\ opLog = <<"Start", "WaitReady", "Connect", "InitSchema", "Preload", "Close", "Stop">>

\* ---- WaitReady against the clock (checked under SpecTimed)

\* C8: without cancellation, a WaitReady that returns the timeout error does
\* so no later than deadline + one polling interval after polling began (the
\* claim as stated; a probe running across the deadline, or the ticker case
\* winning the select against the fired deadline, delays the return).
C8_TimeoutBound ==
    (wrPc = "done" /\ wrResult = "timeout" /\ ~ctxDone) =>
        now <= pollStart + ReadyDeadline + TickInterval

\* C9: no readiness probe runs before the grace delay has elapsed; a probe is
\* started only by consuming a tick; WaitReady returns success exactly when a
\* probe succeeded and starts no probe afterwards; it returns the timeout
\* error only once the deadline has expired with no successful probe.
C9_State ==
    /\ wrPc \in {"poll", "probe"} => now >= GraceDelay /\ pollStart >= GraceDelay
    /\ wrPc = "grace" => ~probeSucceeded /\ ~tickPending
    /\ wrPc # "idle" => ((wrResult = "ok") <=> probeSucceeded)
    /\ wrResult = "ok" => wrPc = "done"
    /\ wrResult = "timeout" =>
          /\ wrPc = "done"
          /\ ~probeSucceeded
          /\ now >= pollStart + ReadyDeadline

C9_Step ==
    /\ (wrPc # "probe" /\ wrPc' = "probe") =>
          (wrPc = "poll" /\ tickPending /\ ~tickPending' /\ wrResult = "none")
    /\ wrPc = "done" => wrPc' \in {"done", "idle"}

WRBlocked ==
    \/ wrPc = "grace" /\ ~graceFired
    \/ wrPc = "poll" /\ ~tickPending /\ ~deadlineFired

C10_Step ==
    (WRBlocked /\ ctxDone) =>
        /\ wrPc' = "done"
        /\ wrResult' = "cancelled"
        /\ now' = now
        /\ UNCHANGED <<graceFired, deadlineFired, tickPending, probeSucceeded>>

C10_CancelUnblocks == [][C10_Step]_vars

C10_Witness ==
    /\ wrPc = "done" /\ wrResult = "cancelled"
    /\ pollStart >= GraceDelay
    /\ ~tickPending /\ ~deadlineFired
    /\ now > pollStart + TickInterval

====
